---- MODULE Spec2Model ----
(***************************************************************************)
(* Model of the parallel toolkit: the state engine (src/src/state.h), the  *)
(* delayed-task phase machine, the timer queue and the dispatcher          *)
(* (src/src/timer.cpp), driven by a worker of the pool                     *)
(* (src/src/thread_pool.cpp).                                              *)
(*                                                                         *)
(* A phase object is a record; its field id stands for its address         *)
(* (shared_ptr comparison is pointer comparison): every make_shared gives  *)
(* a fresh id.  The condition variable lives in the phase object           *)
(* (State : EnableConditionNotification), so a thread waits on the         *)
(* condition variable of one particular phase object.                      *)
(*                                                                         *)
(* A step of a thread is one critical section: a State::call whose method  *)
(* neither waits nor calls back into the timer is one step.  A thread that *)
(* finds a mutex taken takes its step when the mutex is free.  The queue's *)
(* lock is held inside single steps (Queue::addTask, rescheduleTask, stop, *)
(* a pass of getTask between two waits), and across steps only by          *)
(* Queue::cancelAll, which the thread that destroys the Timer runs: the    *)
(* lock is taken exactly while that thread is in cancelAll.                *)
(*                                                                         *)
(* Locking a std::mutex that the thread owns is undefined behaviour; the   *)
(* outcomes are that the thread blocks for ever (RelockHang) or that       *)
(* lock() throws std::system_error (RelockThrow).                          *)
(***************************************************************************)
EXTENDS Integers, Sequences, FiniteSets, TLC

\* ------------------------------------------------------------------ bounds
MaxTime == 1
MaxDelay == 2
MaxUserCalls == 1
MaxBodyCalls == 1
MaxQueueSize == 2
MaxEngineCalls == 3
MaxWorkers == 2
MaxJobs == 3
MaxSections == 4
MaxWaits == 2
MaxCellSwaps == 1
MaxHolders == 3
MaxCallbacks == 2
MaxDeferOps == 3
MaxOnceCalls == 4
MaxHandles == 2

Tasks == {1, 2}
Delays == 0..MaxDelay
Users == {"u1"}
Workers == {"w1"}
\* the thread of Self::_dispatcher
Dispatcher == "d"
\* the thread that destroys the Timer
Owner == "m"
Threads == Users \cup Workers \cup {Dispatcher, Owner}
NoThread == "nobody"
ExcValues == {"E1", "E2"}
\* std::system_error(resource_deadlock_would_occur) raised by a mutex that
\* detects that its owner locks it again
SysErr == "deadlock_error"
NoExc == "none"
NoDue == 0 - 1
NotRefused == 0 - 1
\* the threads of SimpleThreadPool::_workers
PoolWorkers == 1..MaxWorkers
\* the tasks handed to SimpleThreadPool::addTask, in the order of the calls
Jobs == 1..MaxJobs
\* an empty std::function
NoTask == 0
Kinds == {"Waiting", "Running", "Done", "Exception", "Cancelled"}
\* the threads that lock a notifiable guarded object
SThreads == {"p", "q"}
\* EnableConditionNotification::_lock == nullptr
NoLockPtr == "nolock"
\* the holders of type Defer; an empty std::function
DHolders == 1..MaxHolders
NoCallback == 0
\* the values of Once::_flags
EMPTY == 0
INITIALIZATION == 1
HAS_VALUE == 2
DISABLED == 4
\* the threads that use one Once
OThreads == {"i", "j"}
\* the objects of type Timer::Handle
Handles == 1..MaxHandles
\* Handle::_task == nullptr
NoTaskPtr == 0

VARIABLES
    now,        \* std::chrono::steady_clock::now()
    phase,      \* DelayedTask::_state, the current phase object of each task
    delay,      \* DelayedTask::_delay
    stateLock,  \* owner of the mutex of DelayedTask::_state
    queue,      \* Queue::_queue, multimap dueTime -> task, in iteration order
    mapping,    \* Queue::_mapping, task -> dueTime
    quit,       \* Queue::_quit
    maxQueueSize, \* Queue::_maxQueueSize
    poolQueue,  \* TaskQueue::_queue, the closures { task->run(); }
    poolQuit,   \* TaskQueue::_quit
    th,         \* position and locals of each thread
    last,       \* outcome of the last call each thread completed
    callsLeft,  \* operations the program may still issue: calls on
                \* handles, the destruction of the timer and of the pool
    bodyRuns,   \* how often _task() of each task was entered
    waitingEntries, \* how often a StateWaiting object was made current
    raised,     \* value the body of each task raised
    excOn,      \* kind of the phase State::exception was dispatched on
    excVal,     \* exception_ptr handed to State::exception
    cancelledFrom, \* kind of the phase a cancel() swapped to Cancelled
    doneLog,    \* what State::done did
    seen,       \* kinds of the phases of each task that are not current
                \* any more
    schedAt,    \* time of the last Queue::addTask or rescheduleTask that
                \* took each task
    insOrder,   \* the tasks in the order of their last placeTask
    refused,    \* bodyRuns of each task when the queue or the pool
                \* refused it
    usedGone,   \* a thread went through _timer after ~Timer
    graal,      \* state::State<Base> of the State test: the current phase
    gth,        \* the call each engine thread is in
    glast,      \* the last call each engine thread completed
    gCallsLeft, \* engine calls still to be issued
    poolPc,     \* the SimpleThreadPool of the pool tests: not constructed,
                \* alive, in its destructor, destroyed; or the process
                \* has terminated
    threadCount, \* number of threads in SimpleThreadPool::_workers
    hasHandler, \* SimpleThreadPool::_handler is not empty
    tq,         \* TaskQueue::_queue
    tqQuit,     \* TaskQueue::_quit
    wk,         \* position of each worker thread, the task it runs
    nextJob,    \* number of the next call of addTask
    accepted,   \* the tasks addTask returned true for, in call order
    dequeued,   \* the tasks getTask returned, in order
    started,    \* how often each task was called
    finished,   \* the call of the task has ended
    afterQuit,  \* the task was returned by getTask with _quit set
    threw,      \* the task threw
    sunk,       \* how often the handler got an exception of the task
    lastAdd,    \* the last call of addTask
    cellObj,    \* the object the Guard holds now (state::State: the
                \* current phase object)
    cellSlot,   \* EnableConditionNotification::_lock of each object: the
                \* thread whose SignalableLock it points to
    cellMutex,  \* owner of Guard::_mutex
    cellFreed,  \* the objects that have been destroyed
    sec,        \* the locked section each thread is in
    lastWait,   \* the last waitForNotification of each thread that ended
    staleWrite, \* ~SignalableLock wrote the slot of a destroyed object
    sectionsLeft, \* locked sections still to be entered
    dfr,        \* each Defer: constructed or not, callback, called
    runs,       \* how often each callback was called
    userPassed, \* pass() was called on the holder of the callback while
                \* the callback was pending
    nextCb,     \* the next callback to be given to a Defer
    deferOpsLeft, \* operations on Defer objects still to be issued
    oFlags,     \* Once::_flags
    oObject,    \* Once::_object: the thread whose initializer stored it
    oth,        \* position of each thread in init or disable, expected
    initTrue,   \* how many initialization attempts returned true
    completed,  \* how many initializations completed
    lastGet,    \* the last get() of each thread
    lastInit,   \* the last initialization attempt of each thread
    disDone,    \* a disable() has returned
    disRet,     \* what the first disable() returned
    disRaced,   \* a disable() found an initialization in progress
    threwCount, \* how many initializers threw
    howRuns,    \* how many initializers ran; one ran over a value
    onceCallsLeft, \* calls on the Once still to be issued
    hnd,        \* each Handle: constructed or not, _task
    hPhase,     \* DelayedTask::_state of the tasks of the handles
    hOut        \* how the destructor of each Handle ended

timerVars == <<now, phase, delay, stateLock, queue, mapping, quit,
               maxQueueSize, poolQueue, poolQuit, th, last, callsLeft,
               bodyRuns, waitingEntries, raised, excOn, excVal,
               cancelledFrom, doneLog, seen, schedAt, insOrder, refused,
               usedGone>>
engineVars == <<graal, gth, glast, gCallsLeft>>
simplePoolVars == <<poolPc, threadCount, hasHandler, tq, tqQuit, wk, nextJob,
                    accepted, dequeued, started, finished, afterQuit, threw,
                    sunk, lastAdd>>
slotVars == <<cellObj, cellSlot, cellMutex, cellFreed, sec, lastWait,
              staleWrite, sectionsLeft>>
deferVars == <<dfr, runs, userPassed, nextCb, deferOpsLeft>>
onceVars == <<oFlags, oObject, oth, initTrue, completed, lastGet, lastInit,
              disDone, disRet, disRaced, threwCount, howRuns,
              onceCallsLeft>>
handleVars == <<hnd, hPhase, hOut>>
utilVars == <<slotVars, deferVars, onceVars, handleVars>>
vars == <<now, phase, delay, stateLock, queue, mapping, quit, maxQueueSize,
          poolQueue, poolQuit, th, last, callsLeft, bodyRuns,
          waitingEntries, raised, excOn, excVal, cancelledFrom, doneLog,
          seen, schedAt, insOrder, refused, usedGone, graal, gth, glast,
          gCallsLeft, poolPc, threadCount, hasHandler, tq, tqQuit, wk,
          nextJob, accepted, dequeued, started, finished, afterQuit, threw,
          sunk, lastAdd, cellObj, cellSlot, cellMutex, cellFreed, sec,
          lastWait, staleWrite, sectionsLeft, dfr, runs, userPassed, nextCb,
          deferOpsLeft, oFlags, oObject, oth, initTrue, completed, lastGet,
          lastInit, disDone, disRet, disRaced, threwCount, howRuns,
          onceCallsLeft, hnd, hPhase, hOut>>

\* ------------------------------------------------- state::Request, Switcher
NoState == [kind |-> "None", id |-> 0, executor |-> NoThread,
            restartWanted |-> FALSE, exc |-> NoExc]

\* Request(bool result = false)
RequestBool(result) == [result |-> result, newState |-> NoState]

\* Request(std::shared_ptr<State> newState): result(newState)
RequestState(newState) ==
    [result |-> newState # NoState, newState |-> newState]

\* StateChanged::operator(): _shared != _persistent (pointer comparison)
StateChanged(shared, persistentId) == shared.id # persistentId

\* BaseSwitcher that hands the raw result back from a stale call
BaseSwitcher_rawResult(state, persistentId, req) ==
    IF state.id # persistentId
    THEN [ret |-> req.result, state |-> state]
    ELSE IF req.result /\ req.newState # NoState
         THEN [ret |-> req.result, state |-> req.newState]
         ELSE [ret |-> req.result, state |-> state]

\* BaseSwitcher that forgets state.swap(newState)
BaseSwitcher_noSwap(state, persistentId, req) ==
    IF state.id # persistentId
    THEN [ret |-> FALSE, state |-> state]
    ELSE [ret |-> req.result, state |-> state]

\* BaseSwitcher::operator() after call(persistent) has returned req: the
\* value returned to the caller and the phase left in the cell.
BaseSwitcher(state, persistentId, req) ==
    IF state.id # persistentId
    THEN [ret |-> FALSE, state |-> state]
    ELSE IF req.result /\ req.newState # NoState
         THEN [ret |-> req.result, state |-> req.newState]
         ELSE [ret |-> req.result, state |-> state]

\* ---------------------------------------------------- the phases of a task
StateWaiting(id) == [kind |-> "Waiting", id |-> id, executor |-> NoThread,
                     restartWanted |-> FALSE, exc |-> NoExc]
StateRunning(id, self) == [kind |-> "Running", id |-> id, executor |-> self,
                           restartWanted |-> FALSE, exc |-> NoExc]
StateDone(id) == [kind |-> "Done", id |-> id, executor |-> NoThread,
                  restartWanted |-> FALSE, exc |-> NoExc]
StateException(id, ptr) == [kind |-> "Exception", id |-> id,
                            executor |-> NoThread, restartWanted |-> FALSE,
                            exc |-> ptr]
StateCancelled(id) == [kind |-> "Cancelled", id |-> id, executor |-> NoThread,
                       restartWanted |-> FALSE, exc |-> NoExc]

\* What a phase method does: it returns a Request (obj is the phase object
\* it was called on, as the method leaves it), throws, waits for a
\* notification, or calls back into the timer.
Ret(req, obj) == [tag |-> "ret", req |-> req, obj |-> obj, exc |-> NoExc]
Throw(ptr, obj) ==
    [tag |-> "throw", req |-> RequestBool(FALSE), obj |-> obj, exc |-> ptr]
Wait(obj) ==
    [tag |-> "wait", req |-> RequestBool(FALSE), obj |-> obj, exc |-> NoExc]
CallTimer(what, obj) ==
    [tag |-> what, req |-> RequestBool(FALSE), obj |-> obj, exc |-> NoExc]

\* run() accepted by every phase
State_run_anyPhase(p, self) ==
    Ret(RequestState(StateRunning(p.id + 1, self)), p)

\* State::run, StateWaiting::run
State_run(p, self) ==
    IF p.kind = "Waiting"
    THEN Ret(RequestState(StateRunning(p.id + 1, self)), p)
    ELSE Ret(RequestBool(FALSE), p)

\* StateWaiting::cancel that accepts without a new phase
State_cancel_noSwap(p, self) ==
    CASE p.kind = "Waiting" -> Ret(RequestBool(TRUE), p)
      [] p.kind = "Running" ->
            IF p.executor = self
            THEN Ret(RequestState(StateCancelled(p.id + 1)), p)
            ELSE Wait(p)
      [] p.kind = "Done" -> Ret(RequestState(StateCancelled(p.id + 1)), p)
      [] p.kind = "Exception" -> Throw(p.exc, p)
      [] OTHER -> Ret(RequestBool(FALSE), p)

\* StateCancelled::cancel that cancels once more
State_cancel_again(p, self) ==
    CASE p.kind = "Running" /\ p.executor # self -> Wait(p)
      [] p.kind = "Exception" -> Throw(p.exc, p)
      [] OTHER -> Ret(RequestState(StateCancelled(p.id + 1)), p)

\* State::cancel and its overrides
State_cancel(p, self) ==
    CASE p.kind = "Waiting" -> Ret(RequestState(StateCancelled(p.id + 1)), p)
      [] p.kind = "Running" ->
            IF p.executor = self
            THEN Ret(RequestState(StateCancelled(p.id + 1)), p)
            ELSE Wait(p)
      [] p.kind = "Done" -> Ret(RequestState(StateCancelled(p.id + 1)), p)
      [] p.kind = "Exception" -> Throw(p.exc, p)
      [] OTHER -> Ret(RequestBool(FALSE), p)

\* StateException without its restart override
State_restart_noRethrow(p, self) ==
    CASE p.kind = "Waiting" -> CallTimer("reschedule", p)
      [] p.kind = "Running" ->
            Ret(RequestBool(TRUE), [p EXCEPT !.restartWanted = TRUE])
      [] OTHER -> Ret(RequestBool(FALSE), p)

\* StateCancelled with a restart that makes the task wait again
State_restart_fromCancelled(p, self) ==
    CASE p.kind = "Waiting" -> CallTimer("reschedule", p)
      [] p.kind = "Running" ->
            Ret(RequestBool(TRUE), [p EXCEPT !.restartWanted = TRUE])
      [] p.kind = "Exception" -> Throw(p.exc, p)
      [] p.kind = "Cancelled" -> Ret(RequestState(StateWaiting(p.id + 1)), p)
      [] OTHER -> Ret(RequestBool(FALSE), p)

\* State::restart and its overrides
State_restart(p, self) ==
    CASE p.kind = "Waiting" -> CallTimer("reschedule", p)
      [] p.kind = "Running" ->
            Ret(RequestBool(TRUE), [p EXCEPT !.restartWanted = TRUE])
      [] p.kind = "Exception" -> Throw(p.exc, p)
      [] OTHER -> Ret(RequestBool(FALSE), p)

\* StateRunning::done that installs StateDone whatever phase is current
State_done_anyPhase(p, self) ==
    IF p.kind = "Running" /\ p.restartWanted
    THEN CallTimer("start", p)
    ELSE Ret(RequestState(StateDone(p.id + 1)), p)

\* State::done, StateRunning::done
State_done(p, self) ==
    IF p.kind = "Running"
    THEN IF p.restartWanted
         THEN CallTimer("start", p)
         ELSE Ret(RequestState(StateDone(p.id + 1)), p)
    ELSE Ret(RequestBool(FALSE), p)

\* State::exception, StateRunning::exception
State_exception(p, ptr) ==
    IF p.kind = "Running"
    THEN Ret(RequestState(StateException(p.id + 1, ptr)), p)
    ELSE Ret(RequestBool(FALSE), p)

\* the predicates; they are called through the const call, without Switcher
BoolRet(b) == [tag |-> "ret", val |-> b, exc |-> NoExc]
BoolThrow(ptr) == [tag |-> "throw", val |-> FALSE, exc |-> ptr]
State_isWaiting(p) == BoolRet(p.kind = "Waiting")
State_isRunning(p) == BoolRet(p.kind = "Running")
State_isCancelled(p) == BoolRet(p.kind = "Cancelled")
\* StateException::isDone that answers instead of rethrowing
State_isDone_noRethrow(p) == BoolRet(p.kind \in {"Done", "Exception"})
\* StateCancelled that answers isDone with true as well
State_isDone_orCancelled(p) ==
    IF p.kind = "Exception" THEN BoolThrow(p.exc)
    ELSE BoolRet(p.kind \in {"Done", "Cancelled"})
State_isDone(p) ==
    IF p.kind = "Exception" THEN BoolThrow(p.exc) ELSE BoolRet(p.kind = "Done")

Queries == {"isWaiting", "isRunning", "isDone", "isCancelled"}
Query(op, p) ==
    CASE op = "isWaiting" -> State_isWaiting(p)
      [] op = "isRunning" -> State_isRunning(p)
      [] op = "isDone" -> State_isDone(p)
      [] OTHER -> State_isCancelled(p)

\* ------------------------------------------------------------ Timer::Queue
\* DelayedTask::dueTime of a task with delay d
DueTime(d) == now + d

\* placeTask that puts the entry in front of the entries with an equal key
PlaceTask_beforeEqual(q, dueTime, t) ==
    LET k == Cardinality({i \in 1..Len(q) : q[i].due < dueTime})
    IN  SubSeq(q, 1, k) \o <<[due |-> dueTime, task |-> t]>>
            \o SubSeq(q, k + 1, Len(q))

\* Queue::placeTask: multimap::emplace puts the entry behind the entries
\* with an equal key
PlaceTask(q, dueTime, t) ==
    LET k == Cardinality({i \in 1..Len(q) : q[i].due <= dueTime})
    IN  SubSeq(q, 1, k) \o <<[due |-> dueTime, task |-> t]>>
            \o SubSeq(q, k + 1, Len(q))

\* Queue::placeTask: position == _queue.begin(), the case of its notifyOne()
AtBegin(q, dueTime) == \A i \in 1..Len(q) : dueTime < q[i].due

\* removal of the entry of task t (found in equal_range of its due time)
EraseTask(q, t) == SelectSeq(q, LAMBDA e : e.task # t)

\* Queue::addTask without the test of _maxQueueSize
Queue_addTask_noLimit(t, dueTime) ==
    IF quit \/ mapping[t] # NoDue
    THEN [ok |-> FALSE, queue |-> queue, mapping |-> mapping,
          notify |-> FALSE]
    ELSE [ok |-> TRUE, queue |-> PlaceTask(queue, dueTime, t),
          mapping |-> [mapping EXCEPT ![t] = dueTime],
          notify |-> AtBegin(queue, dueTime)]

\* Queue::addTask of a task whose dueTime() is dueTime
Queue_addTask(t, dueTime) ==
    IF quit \/ maxQueueSize <= Len(queue) \/ mapping[t] # NoDue
    THEN [ok |-> FALSE, queue |-> queue, mapping |-> mapping,
          notify |-> FALSE]
    ELSE [ok |-> TRUE, queue |-> PlaceTask(queue, dueTime, t),
          mapping |-> [mapping EXCEPT ![t] = dueTime],
          notify |-> AtBegin(queue, dueTime)]

\* Queue::rescheduleTask that leaves the due time in _mapping as it was
Queue_rescheduleTask_staleIndex(t, dueTime) ==
    IF quit \/ mapping[t] = NoDue
    THEN [ok |-> FALSE, queue |-> queue, mapping |-> mapping,
          notify |-> FALSE]
    ELSE [ok |-> TRUE,
          queue |-> PlaceTask(EraseTask(queue, t), dueTime, t),
          mapping |-> mapping,
          notify |-> AtBegin(EraseTask(queue, t), dueTime)]

\* Queue::rescheduleTask of a task whose dueTime() is dueTime
Queue_rescheduleTask(t, dueTime) ==
    IF quit \/ mapping[t] = NoDue
    THEN [ok |-> FALSE, queue |-> queue, mapping |-> mapping,
          notify |-> FALSE]
    ELSE [ok |-> TRUE,
          queue |-> PlaceTask(EraseTask(queue, t), dueTime, t),
          mapping |-> [mapping EXCEPT ![t] = dueTime],
          notify |-> AtBegin(EraseTask(queue, t), dueTime)]

\* Queue::taskIsReady that does not look at the clock
TaskIsReady_anyTime == Len(queue) > 0

\* Queue::taskIsReady
TaskIsReady == Len(queue) > 0 /\ queue[1].due <= now

\* ------------------------------------------------------------------ threads
IdleTh == [pc |-> "idle", op |-> "none", task |-> 0, pid |-> -1,
           kind |-> "None", exc |-> NoExc, via |-> "none", bodyLeft |-> 0,
           deadline |-> NoDue, woken |-> FALSE, idx |-> 0]
NoLast == [op |-> "none", task |-> 0, kind |-> "None", out |-> "none",
           val |-> NoExc, moved |-> FALSE, byExecutor |-> FALSE]
Outcome(op, t, kind, out, val) ==
    [op |-> op, task |-> t, kind |-> kind, out |-> out, val |-> val,
     moved |-> FALSE, byExecutor |-> FALSE]
BoolOut(b) == IF b THEN "true" ELSE "false"

\* the queue's lock is held across steps only by Queue::cancelAll, which
\* the destroying thread runs
QueueFree == th[Owner].pc \notin {"cancel_all", "cancel_wait", "cancel_woken"}

\* ~Timer has completed: *_self and its queue are freed
TimerGone == th[Owner].pc = "gone"

\* Queue::notifyOne: the dispatcher is the only thread that waits on the
\* condition variable of the queue
QueueNotify(thr) ==
    IF thr[Dispatcher].pc \in {"timed", "untimed"}
    THEN [thr EXCEPT ![Dispatcher].woken = TRUE]
    ELSE thr

\* std::terminate (an exception leaves a thread function or a destructor)
\* or a crash ends the process: thread x is where it happened, no thread
\* takes another step
Abort(x, how) ==
    [y \in Threads |->
        [th[y] EXCEPT !.pc = IF y = x THEN how ELSE "aborted"]]

\* ------------------------------------------- the engine of the State test
EThreads == {"a", "b"}
\* struct Child, struct BadChild
Child(id) == [NoState EXCEPT !.kind = "Child", !.id = id]
BadChild(id) == [NoState EXCEPT !.kind = "BadChild", !.id = id]
GIdle == [pc |-> "idle", m |-> "none", pid |-> -1, onKind |-> "None",
          req |-> RequestBool(FALSE)]
GNoLast == [m |-> "none", onKind |-> "None", req |-> RequestBool(FALSE),
            stale |-> FALSE, out |-> "none", before |-> NoState,
            after |-> NoState]

\* a thread of _workers before the constructor has started it
NoWorker == [pc |-> "none", job |-> NoTask, notified |-> FALSE,
             via |-> "none", forwarded |-> FALSE]
\* a thread outside every locked section
NoSection == [pc |-> "out", write |-> FALSE, obj |-> 0,
              captured |-> NoLockPtr, waits |-> 0, others |-> FALSE]
\* no call of addTask yet
NoAdd == [task |-> NoTask, ok |-> FALSE, quitBefore |-> FALSE,
          before |-> <<>>, after |-> <<>>, notified |-> FALSE]

Init ==
    /\ now = 0
    /\ phase = [t \in Tasks |-> NoState]
    /\ delay = [t \in Tasks |-> 0]
    /\ stateLock = [t \in Tasks |-> NoThread]
    /\ queue = <<>>
    /\ mapping = [t \in Tasks |-> NoDue]
    /\ quit = FALSE
    /\ maxQueueSize \in 1..MaxQueueSize
    /\ poolQueue = <<>>
    /\ poolQuit = FALSE
    /\ th = [x \in Threads |-> IdleTh]
    /\ last = [x \in Threads |-> NoLast]
    /\ callsLeft = MaxUserCalls
    /\ bodyRuns = [t \in Tasks |-> 0]
    /\ waitingEntries = [t \in Tasks |-> 0]
    /\ raised = [t \in Tasks |-> NoExc]
    /\ excOn = [t \in Tasks |-> "None"]
    /\ excVal = [t \in Tasks |-> NoExc]
    /\ cancelledFrom = [t \in Tasks |-> "None"]
    /\ doneLog = [t \in Tasks |-> "none"]
    /\ seen = [t \in Tasks |-> {}]
    /\ schedAt = [t \in Tasks |-> NoDue]
    /\ insOrder = <<>>
    /\ refused = [t \in Tasks |-> NotRefused]
    /\ usedGone = FALSE
    /\ graal = Child(1)
    /\ gth = [x \in EThreads |-> GIdle]
    /\ glast = [x \in EThreads |-> GNoLast]
    /\ gCallsLeft = MaxEngineCalls
    /\ poolPc = "none"
    /\ threadCount = 0
    /\ hasHandler = FALSE
    /\ tq = <<>>
    /\ tqQuit = FALSE
    /\ wk = [w \in PoolWorkers |-> NoWorker]
    /\ nextJob = 1
    /\ accepted = <<>>
    /\ dequeued = <<>>
    /\ started = [j \in Jobs |-> 0]
    /\ finished = [j \in Jobs |-> FALSE]
    /\ afterQuit = [j \in Jobs |-> FALSE]
    /\ threw = [j \in Jobs |-> FALSE]
    /\ sunk = [j \in Jobs |-> 0]
    /\ lastAdd = NoAdd
    /\ cellObj = 1
    /\ cellSlot = [o \in 1..(MaxCellSwaps + 1) |-> NoLockPtr]
    /\ cellMutex = NoThread
    /\ cellFreed = {}
    /\ sec = [x \in SThreads |-> NoSection]
    /\ lastWait = [x \in SThreads |->
          [out |-> "none", write |-> FALSE, slotBefore |-> NoLockPtr,
           slotAfter |-> NoLockPtr, mutexBefore |-> NoThread,
           mutexAfter |-> NoThread, others |-> FALSE, waits |-> 0]]
    /\ staleWrite = FALSE
    /\ sectionsLeft = MaxSections
    /\ dfr = [h \in DHolders |->
          [st |-> "none", cb |-> NoCallback, called |-> FALSE]]
    /\ runs = [c \in 1..MaxCallbacks |-> 0]
    /\ userPassed = [c \in 1..MaxCallbacks |-> FALSE]
    /\ nextCb = 1
    /\ deferOpsLeft = MaxDeferOps
    /\ oFlags = EMPTY
    /\ oObject = NoThread
    /\ oth = [x \in OThreads |-> [pc |-> "idle", expected |-> EMPTY]]
    /\ initTrue = 0
    /\ completed = 0
    /\ lastGet = [x \in OThreads |->
          [ptr |-> "none", completed |-> 0, afterDisable |-> FALSE,
           disRet |-> "none"]]
    /\ lastInit = [x \in OThreads |->
          [out |-> "none", afterDisable |-> FALSE]]
    /\ disDone = FALSE
    /\ disRet = "none"
    /\ disRaced = FALSE
    /\ threwCount = 0
    /\ howRuns = [over |-> FALSE, n |-> 0]
    /\ onceCallsLeft = MaxOnceCalls
    /\ hnd = [h \in Handles |->
          [st |-> "none", task |-> NoTaskPtr, pid |-> 0]]
    /\ hPhase = [t \in Tasks |-> NoState]
    /\ hOut = [h \in Handles |-> "none"]

\* ----------------------------------------------------------- State::call
\* State::call<member> on phase p when the method returned or threw r
\* without being suspended: the phase left in the cell and what the caller
\* gets.
CallResult(p, r) ==
    IF r.tag = "throw"
    THEN [phase |-> r.obj, out |-> "threw", val |-> r.exc]
    ELSE LET sw == BaseSwitcher(r.obj, p.id, r.req)
         IN  [phase |-> sw.state, out |-> BoolOut(sw.ret), val |-> NoExc]

\* the phase kind on which a cancel() call was accepted
CancelledBy(t, p, c) ==
    IF c.out = "true"
    THEN [cancelledFrom EXCEPT ![t] = p.kind]
    ELSE cancelledFrom

\* what a completed cancel() of thread self on phase p did: moved says that
\* this call left a StateCancelled object it made itself in the cell
CancelOutcome(t, p, c, self) ==
    [Outcome("cancel", t, p.kind, c.out, c.val) EXCEPT
        !.moved = (c.phase.kind = "Cancelled" /\ c.phase.id # p.id),
        !.byExecutor = (p.executor = self)]

\* the kinds of the phases that were current before the phase of task t
\* went from p to q
Seen(t, p, q) ==
    [seen EXCEPT ![t] =
        IF q.kind # p.kind /\ p.kind # "None" THEN @ \cup {p.kind} ELSE @]

\* the order of the last insertions once placeTask has taken task t
Inserted(t) == Append(SelectSeq(insOrder, LAMBDA s : s # t), t)

\* where a thread goes on when its cancel() has returned: the destroying
\* thread is in the loop of Queue::cancelAll
AfterCancel(x) ==
    IF x = Owner
    THEN [IdleTh EXCEPT !.pc = "cancel_all", !.idx = th[x].idx + 1]
    ELSE IdleTh

ghostVars == <<bodyRuns, waitingEntries, raised, excOn, excVal,
               cancelledFrom, doneLog, seen, schedAt, insOrder, refused,
               usedGone>>
queueVars == <<queue, mapping, quit, maxQueueSize>>
poolVars == <<poolQueue, poolQuit>>

\* steady_clock advances
Tick ==
    /\ now < MaxTime
    /\ now' = now + 1
    /\ UNCHANGED <<phase, delay, stateLock, queueVars, poolVars, th, last,
                   callsLeft, ghostVars, engineVars, simplePoolVars, utilVars>>

\* Timer::addDelayedTask(d, task) and Self::addTask: the task starts in
\* StateWaiting; when the queue refuses it, task->cancel()
AddDelayedTask(u, t, d) ==
    /\ th[u].pc = "idle"
    /\ ~TimerGone /\ QueueFree
    /\ phase[t] = NoState
    /\ \A s \in Tasks : s < t => phase[s] # NoState
    /\ LET q == Queue_addTask(t, DueTime(d))
           p == StateWaiting(1)
           c == CallResult(p, State_cancel(p, u))
       IN  /\ queue' = q.queue
           /\ mapping' = q.mapping
           /\ th' = IF q.notify THEN QueueNotify(th) ELSE th
           /\ phase' = [phase EXCEPT ![t] = IF q.ok THEN p ELSE c.phase]
           /\ cancelledFrom' =
                IF q.ok THEN cancelledFrom ELSE CancelledBy(t, p, c)
           /\ seen' = IF q.ok THEN seen ELSE Seen(t, p, c.phase)
           /\ schedAt' = IF q.ok THEN [schedAt EXCEPT ![t] = now]
                         ELSE schedAt
           /\ insOrder' = IF q.ok THEN Inserted(t) ELSE insOrder
           /\ refused' = IF q.ok THEN refused
                         ELSE [refused EXCEPT ![t] = bodyRuns[t]]
    /\ delay' = [delay EXCEPT ![t] = d]
    /\ waitingEntries' = [waitingEntries EXCEPT ![t] = @ + 1]
    /\ UNCHANGED <<now, stateLock, quit, maxQueueSize, poolVars, last,
                   callsLeft, bodyRuns, raised, excOn, excVal, doneLog,
                   usedGone, engineVars, simplePoolVars, utilVars>>

\* Handle::cancel -> DelayedTask::cancel -> _state.call<&State::cancel>()
UserCancel(u, t) ==
    /\ th[u].pc = "idle" /\ callsLeft > 0
    /\ phase[t] # NoState /\ stateLock[t] = NoThread
    /\ callsLeft' = callsLeft - 1
    /\ LET p == phase[t]
           r == State_cancel(p, u)
           c == CallResult(p, r)
       IN  IF r.tag = "wait"
           THEN /\ th' = [th EXCEPT ![u] = [IdleTh EXCEPT
                            !.pc = "cancel_wait", !.op = "cancel",
                            !.task = t, !.pid = p.id, !.kind = p.kind]]
                /\ last' = [last EXCEPT ![u] = NoLast]
                /\ UNCHANGED <<phase, cancelledFrom, seen>>
           ELSE /\ phase' = [phase EXCEPT ![t] = c.phase]
                /\ last' = [last EXCEPT ![u] = CancelOutcome(t, p, c, u)]
                /\ cancelledFrom' = CancelledBy(t, p, c)
                /\ seen' = Seen(t, p, c.phase)
                /\ UNCHANGED th
    /\ UNCHANGED <<now, delay, stateLock, queueVars, poolVars, bodyRuns,
                   waitingEntries, raised, excOn, excVal, doneLog, schedAt,
                   insOrder, refused, usedGone, engineVars, simplePoolVars,
                   utilVars>>

\* StateRunning::cancel after a wake-up, by a notification (cancel_woken)
\* or without one (condition_variable_any::wait may return spuriously):
\* the lock is taken again and the predicate changed() decides between
\* waiting on and return {}
CancelResume(x) ==
    /\ th[x].pc \in {"cancel_wait", "cancel_woken"}
    /\ stateLock[th[x].task] = NoThread
    /\ LET t == th[x].task
           sw == BaseSwitcher(phase[t], th[x].pid, RequestBool(FALSE))
       IN  IF StateChanged(phase[t], th[x].pid)
           THEN /\ th' = [th EXCEPT ![x] = AfterCancel(x)]
                /\ last' = [last EXCEPT ![x] =
                     Outcome("cancel", t, th[x].kind, BoolOut(sw.ret), NoExc)]
           ELSE /\ th' = [th EXCEPT ![x].pc = "cancel_wait"]
                /\ UNCHANGED last
    /\ UNCHANGED <<now, phase, delay, stateLock, queueVars, poolVars,
                   callsLeft, ghostVars, engineVars, simplePoolVars, utilVars>>

\* DelayedTask::restart -> _state.call<&State::restart>()
UserRestart(u, t) ==
    /\ th[u].pc = "idle" /\ callsLeft > 0
    /\ phase[t] # NoState /\ stateLock[t] = NoThread
    /\ callsLeft' = callsLeft - 1
    /\ LET p == phase[t]
           r == State_restart(p, u)
           c == CallResult(p, r)
       IN  IF r.tag = "reschedule"
           THEN /\ th' = [th EXCEPT ![u] = [IdleTh EXCEPT
                            !.pc = "reschedule", !.op = "restart",
                            !.task = t, !.pid = p.id, !.kind = p.kind]]
                /\ stateLock' = [stateLock EXCEPT ![t] = u]
                /\ last' = [last EXCEPT ![u] = NoLast]
                /\ UNCHANGED <<phase, seen>>
           ELSE /\ phase' = [phase EXCEPT ![t] = c.phase]
                /\ last' = [last EXCEPT ![u] =
                              Outcome("restart", t, p.kind, c.out, c.val)]
                /\ seen' = Seen(t, p, c.phase)
                /\ UNCHANGED <<th, stateLock>>
    /\ UNCHANGED <<now, delay, queueVars, poolVars, bodyRuns, waitingEntries,
                   raised, excOn, excVal, cancelledFrom, doneLog, schedAt,
                   insOrder, refused, usedGone, engineVars, simplePoolVars,
                   utilVars>>

\* StateWaiting::restart -> DelayedTask::reschedule -> Timer::reschedule ->
\* Self::rescheduleTask: Queue::rescheduleTask under the queue's lock, the
\* lock of the task's state still held; then task->cancel() when it failed,
\* and task->isCancelled().  With the Timer gone _timer dangles: the call
\* may still find the memory of the freed queue as ~Self left it.
Reschedule(x) ==
    /\ th[x].pc = "reschedule"
    /\ QueueFree
    /\ LET t == th[x].task
           q == Queue_rescheduleTask(t, DueTime(delay[t]))
           thr == [th EXCEPT ![x].pc = "relock",
                   ![x].via = IF q.ok THEN "isCancelled" ELSE "cancel"]
       IN  /\ queue' = q.queue
           /\ mapping' = q.mapping
           /\ th' = IF q.notify THEN QueueNotify(thr) ELSE thr
           /\ schedAt' = IF q.ok THEN [schedAt EXCEPT ![t] = now]
                         ELSE schedAt
           /\ insOrder' = IF q.ok THEN Inserted(t) ELSE insOrder
    /\ usedGone' = (usedGone \/ TimerGone)
    /\ UNCHANGED <<now, phase, delay, stateLock, quit, maxQueueSize,
                   poolVars, last, callsLeft, bodyRuns, waitingEntries,
                   raised, excOn, excVal, cancelledFrom, doneLog, seen,
                   refused, engineVars, simplePoolVars, utilVars>>

\* ... or the use of the dangling _timer (Timer::start, Timer::reschedule:
\* _self is read from freed memory) crashes the process
UseAfterFree(x) ==
    /\ th[x].pc \in {"reschedule", "start"}
    /\ TimerGone
    /\ th' = Abort(x, "crashed")
    /\ usedGone' = TRUE
    /\ UNCHANGED <<now, phase, delay, stateLock, queueVars, poolVars, last,
                   callsLeft, bodyRuns, waitingEntries, raised, excOn,
                   excVal, cancelledFrom, doneLog, seen, schedAt, insOrder,
                   refused, engineVars, simplePoolVars, utilVars>>

\* task->cancel() or task->isCancelled() locks the std::mutex of _state,
\* which this thread owns: undefined behaviour, the thread blocks for ever
RelockHang(x) ==
    /\ th[x].pc = "relock"
    /\ th' = [th EXCEPT ![x].pc = "hung"]
    /\ UNCHANGED <<now, phase, delay, stateLock, queueVars, poolVars, last,
                   callsLeft, ghostVars, engineVars, simplePoolVars, utilVars>>

\* ... or the mutex detects it and lock() throws std::system_error, which
\* leaves State::call (the lock is released) and reaches the caller of
\* restart(), or the catch (...) of DelayedTask::run
RelockThrow(x) ==
    /\ th[x].pc = "relock"
    /\ LET t == th[x].task
       IN  /\ stateLock' = [stateLock EXCEPT ![t] = NoThread]
           /\ IF th[x].op = "restart"
              THEN /\ th' = [th EXCEPT ![x] = IdleTh]
                   /\ last' = [last EXCEPT ![x] =
                        Outcome("restart", t, th[x].kind, "threw", SysErr)]
              ELSE /\ th' = [th EXCEPT ![x].pc = "exc_call",
                             ![x].exc = SysErr]
                   /\ UNCHANGED last
    /\ UNCHANGED <<now, phase, delay, queueVars, poolVars, callsLeft,
                   ghostVars, engineVars, simplePoolVars, utilVars>>

\* Handle::isWaiting, isRunning, isDone, isCancelled: the const State::call
UserQuery(u, t, op) ==
    /\ th[u].pc = "idle" /\ callsLeft > 0
    /\ phase[t] # NoState /\ stateLock[t] = NoThread
    /\ callsLeft' = callsLeft - 1
    /\ LET r == Query(op, phase[t])
       IN  last' = [last EXCEPT ![u] =
                Outcome(op, t, phase[t].kind,
                        IF r.tag = "throw" THEN "threw" ELSE BoolOut(r.val),
                        r.exc)]
    /\ UNCHANGED <<now, phase, delay, stateLock, queueVars, poolVars, th,
                   ghostVars, engineVars, simplePoolVars, utilVars>>

\* ------------------------------------------------------------- dispatcher
\* one pass of the loop of Queue::getTask, the queue's lock held: return {}
\* once _quit is set, pop the earliest task when it is ready, else wait up
\* to the due time of the nearest task, or without a time limit when the
\* queue is empty
GetTaskPass ==
    IF quit
    THEN [th |-> [IdleTh EXCEPT !.pc = "exited"], queue |-> queue,
          mapping |-> mapping]
    ELSE IF TaskIsReady
         THEN [th |-> [IdleTh EXCEPT !.pc = "submit",
                                     !.task = queue[1].task],
               queue |-> Tail(queue),
               mapping |-> [mapping EXCEPT ![queue[1].task] = NoDue]]
         ELSE IF queue # <<>>
              THEN [th |-> [IdleTh EXCEPT !.pc = "timed",
                                          !.deadline = queue[1].due],
                    queue |-> queue, mapping |-> mapping]
              ELSE [th |-> [IdleTh EXCEPT !.pc = "untimed"],
                    queue |-> queue, mapping |-> mapping]

\* Self::dispatcher: _queue.lock()->getTask() is entered
DispGetTask ==
    /\ th[Dispatcher].pc = "idle"
    /\ QueueFree
    /\ th' = [th EXCEPT ![Dispatcher] = GetTaskPass.th]
    /\ queue' = GetTaskPass.queue
    /\ mapping' = GetTaskPass.mapping
    /\ UNCHANGED <<now, phase, delay, stateLock, quit, maxQueueSize,
                   poolVars, last, callsLeft, ghostVars, engineVars,
                   simplePoolVars, utilVars>>

\* the dispatcher wakes in waitForNotification (notified, its time point
\* reached, or spuriously) and has the queue's lock again.  wait_until(lock,
\* timePoint, pred) goes on waiting for the same timePoint while pred is
\* false and the time point is not reached; wait(lock, pred) goes on
\* waiting while pred is false; otherwise the loop of getTask goes round.
DispWake ==
    /\ th[Dispatcher].pc \in {"timed", "untimed"}
    /\ QueueFree
    /\ LET timed == th[Dispatcher].pc = "timed"
           timeout == timed /\ th[Dispatcher].deadline <= now
           pred == IF timed THEN quit \/ TaskIsReady
                   ELSE quit \/ queue # <<>>
       IN  IF pred \/ timeout
           THEN /\ th' = [th EXCEPT ![Dispatcher] = GetTaskPass.th]
                /\ queue' = GetTaskPass.queue
                /\ mapping' = GetTaskPass.mapping
           ELSE /\ th' = [th EXCEPT ![Dispatcher].woken = FALSE]
                /\ UNCHANGED <<queue, mapping>>
    /\ UNCHANGED <<now, phase, delay, stateLock, quit, maxQueueSize,
                   poolVars, last, callsLeft, ghostVars, engineVars,
                   simplePoolVars, utilVars>>

\* TaskQueue::addTask of the closure { task->run(); }
TaskQueue_addTask(t) ==
    IF poolQuit
    THEN [ok |-> FALSE, queue |-> poolQueue]
    ELSE [ok |-> TRUE, queue |-> Append(poolQueue, t)]

\* Self::dispatcher: _threadPool.addTask([task, this]{ task->run(); })
DispSubmit ==
    /\ th[Dispatcher].pc = "submit"
    /\ LET t == th[Dispatcher].task
           a == TaskQueue_addTask(t)
       IN  /\ poolQueue' = a.queue
           /\ th' = [th EXCEPT ![Dispatcher] =
                        IF a.ok THEN IdleTh
                        ELSE [IdleTh EXCEPT !.pc = "refused", !.task = t]]
           /\ refused' = IF a.ok THEN refused
                         ELSE [refused EXCEPT ![t] = bodyRuns[t]]
    /\ UNCHANGED <<now, phase, delay, stateLock, queueVars, poolQuit, last,
                   callsLeft, bodyRuns, waitingEntries, raised, excOn,
                   excVal, cancelledFrom, doneLog, seen, schedAt, insOrder,
                   usedGone, engineVars, simplePoolVars, utilVars>>

\* Self::dispatcher: task->cancel() of the task the pool refused; an
\* exception that cancel() throws leaves the thread function:
\* std::terminate
DispCancel ==
    /\ th[Dispatcher].pc = "refused"
    /\ stateLock[th[Dispatcher].task] = NoThread
    /\ LET t == th[Dispatcher].task
           p == phase[t]
           r == State_cancel(p, Dispatcher)
           c == CallResult(p, r)
       IN  CASE r.tag = "wait" ->
                /\ th' = [th EXCEPT ![Dispatcher] = [IdleTh EXCEPT
                            !.pc = "cancel_wait", !.op = "cancel",
                            !.task = t, !.pid = p.id, !.kind = p.kind]]
                /\ last' = [last EXCEPT ![Dispatcher] = NoLast]
                /\ UNCHANGED <<phase, cancelledFrom, seen>>
             [] r.tag = "throw" ->
                /\ th' = Abort(Dispatcher, "terminated")
                /\ last' = [last EXCEPT ![Dispatcher] =
                              CancelOutcome(t, p, c, Dispatcher)]
                /\ UNCHANGED <<phase, cancelledFrom, seen>>
             [] OTHER ->
                /\ phase' = [phase EXCEPT ![t] = c.phase]
                /\ last' = [last EXCEPT ![Dispatcher] =
                              CancelOutcome(t, p, c, Dispatcher)]
                /\ cancelledFrom' = CancelledBy(t, p, c)
                /\ seen' = Seen(t, p, c.phase)
                /\ th' = [th EXCEPT ![Dispatcher] = IdleTh]
    /\ UNCHANGED <<now, delay, stateLock, queueVars, poolVars, callsLeft,
                   bodyRuns, waitingEntries, raised, excOn, excVal, doneLog,
                   schedAt, insOrder, refused, usedGone, engineVars,
                   simplePoolVars, utilVars>>

\* ------------------------------------------------------------ destruction
\* Self::~Self: _queue.lock()->stop() sets _quit and notifies the dispatcher
TimerStop(m) ==
    /\ th[m].pc = "idle" /\ callsLeft > 0
    /\ callsLeft' = callsLeft - 1
    /\ quit' = TRUE
    /\ th' = QueueNotify([th EXCEPT ![m].pc = "join"])
    /\ UNCHANGED <<now, phase, delay, stateLock, queue, mapping,
                   maxQueueSize, poolVars, last, ghostVars, engineVars,
                   simplePoolVars, utilVars>>

\* Self::~Self: _dispatcher.join() returns when the dispatcher has left its
\* thread function; then _queue.lock()->cancelAll() is entered
TimerJoin(m) ==
    /\ th[m].pc = "join"
    /\ th[Dispatcher].pc = "exited"
    /\ th' = [th EXCEPT ![m].pc = "cancel_all", ![m].idx = 1]
    /\ UNCHANGED <<now, phase, delay, stateLock, queueVars, poolVars, last,
                   callsLeft, ghostVars, engineVars, simplePoolVars, utilVars>>

\* Queue::cancelAll: task->cancel() of the next task of _queue, the queue's
\* lock held; an exception that cancel() throws leaves the destructor:
\* std::terminate
CancelAll(m) ==
    /\ th[m].pc = "cancel_all"
    /\ th[m].idx <= Len(queue)
    /\ stateLock[queue[th[m].idx].task] = NoThread
    /\ LET t == queue[th[m].idx].task
           p == phase[t]
           r == State_cancel(p, m)
           c == CallResult(p, r)
       IN  CASE r.tag = "wait" ->
                /\ th' = [th EXCEPT ![m].pc = "cancel_wait",
                          ![m].op = "cancel", ![m].task = t,
                          ![m].pid = p.id, ![m].kind = p.kind]
                /\ last' = [last EXCEPT ![m] = NoLast]
                /\ UNCHANGED <<phase, cancelledFrom, seen>>
             [] r.tag = "throw" ->
                /\ th' = Abort(m, "terminated")
                /\ last' = [last EXCEPT ![m] = CancelOutcome(t, p, c, m)]
                /\ UNCHANGED <<phase, cancelledFrom, seen>>
             [] OTHER ->
                /\ phase' = [phase EXCEPT ![t] = c.phase]
                /\ last' = [last EXCEPT ![m] = CancelOutcome(t, p, c, m)]
                /\ cancelledFrom' = CancelledBy(t, p, c)
                /\ seen' = Seen(t, p, c.phase)
                /\ th' = [th EXCEPT ![m] = AfterCancel(m)]
    /\ UNCHANGED <<now, delay, stateLock, queueVars, poolVars, callsLeft,
                   bodyRuns, waitingEntries, raised, excOn, excVal, doneLog,
                   schedAt, insOrder, refused, usedGone, engineVars,
                   simplePoolVars, utilVars>>

\* ~Self returns, _queue and its tasks are released, *_self is freed
TimerDestroyed(m) ==
    /\ th[m].pc = "cancel_all"
    /\ th[m].idx > Len(queue)
    /\ th' = [th EXCEPT ![m] = [IdleTh EXCEPT !.pc = "gone"]]
    /\ queue' = <<>>
    /\ mapping' = [t \in Tasks |-> NoDue]
    /\ UNCHANGED <<now, phase, delay, stateLock, quit, maxQueueSize,
                   poolVars, last, callsLeft, ghostVars, engineVars,
                   simplePoolVars, utilVars>>

\* ~SimpleThreadPool: _queue.lock()->stop(); the pool, which the Timer
\* refers to, is alive while the joins that follow are pending
PoolStop ==
    /\ ~poolQuit /\ callsLeft > 0
    /\ callsLeft' = callsLeft - 1
    /\ poolQuit' = TRUE
    /\ UNCHANGED <<now, phase, delay, stateLock, queueVars, poolQueue, th,
                   last, ghostVars, engineVars, simplePoolVars, utilVars>>

\* ----------------------------------------------------------------- worker
\* SimpleThreadPool::run: TaskQueue::getTask finds _quit unset and the
\* queue not empty (the predicate of its wait holds at once) and takes the
\* head
WorkerTake(w) ==
    /\ th[w].pc = "idle"
    /\ ~poolQuit
    /\ poolQueue # <<>>
    /\ th' = [th EXCEPT ![w] = [IdleTh EXCEPT !.pc = "run_call",
                                !.op = "run", !.task = Head(poolQueue)]]
    /\ poolQueue' = Tail(poolQueue)
    /\ UNCHANGED <<now, phase, delay, stateLock, queueVars, poolQuit, last,
                   callsLeft, ghostVars, engineVars, simplePoolVars, utilVars>>

\* TaskQueue::getTask waits: _quit is unset and the queue is empty
WorkerWait(w) ==
    /\ th[w].pc = "idle"
    /\ ~poolQuit
    /\ poolQueue = <<>>
    /\ th' = [th EXCEPT ![w].pc = "pool_wait"]
    /\ UNCHANGED <<now, phase, delay, stateLock, queueVars, poolVars, last,
                   callsLeft, ghostVars, engineVars, simplePoolVars, utilVars>>

\* the wait of TaskQueue::getTask ends (_quit || !_queue.empty()): a task
\* that is there is taken, else the loop ends on _quit and run() returns
WorkerWake(w) ==
    /\ th[w].pc = "pool_wait"
    /\ poolQuit \/ poolQueue # <<>>
    /\ IF poolQueue # <<>>
       THEN /\ th' = [th EXCEPT ![w] = [IdleTh EXCEPT !.pc = "run_call",
                                   !.op = "run", !.task = Head(poolQueue)]]
            /\ poolQueue' = Tail(poolQueue)
       ELSE /\ th' = [th EXCEPT ![w] = [IdleTh EXCEPT !.pc = "exited"]]
            /\ UNCHANGED poolQueue
    /\ UNCHANGED <<now, phase, delay, stateLock, queueVars, poolQuit, last,
                   callsLeft, ghostVars, engineVars, simplePoolVars, utilVars>>

\* TaskQueue::getTask is entered with _quit set: return {}, run() returns
WorkerExit(w) ==
    /\ th[w].pc = "idle"
    /\ poolQuit
    /\ th' = [th EXCEPT ![w] = [IdleTh EXCEPT !.pc = "exited"]]
    /\ UNCHANGED <<now, phase, delay, stateLock, queueVars, poolVars, last,
                   callsLeft, ghostVars, engineVars, simplePoolVars, utilVars>>

\* DelayedTask::run: if (_state.call<&State::run>()) the body is entered
RunCall(w) ==
    /\ th[w].pc = "run_call"
    /\ stateLock[th[w].task] = NoThread
    /\ LET t == th[w].task
           p == phase[t]
           c == CallResult(p, State_run(p, w))
       IN  /\ phase' = [phase EXCEPT ![t] = c.phase]
           /\ last' = [last EXCEPT ![w] =
                         Outcome("run", t, p.kind, c.out, c.val)]
           /\ seen' = Seen(t, p, c.phase)
           /\ IF c.out = "true"
              THEN /\ th' = [th EXCEPT ![w].pc = "body",
                             ![w].bodyLeft = MaxBodyCalls]
                   /\ bodyRuns' = [bodyRuns EXCEPT ![t] = @ + 1]
              ELSE /\ th' = [th EXCEPT ![w] = IdleTh]
                   /\ UNCHANGED bodyRuns
    /\ UNCHANGED <<now, delay, stateLock, queueVars, poolVars, callsLeft,
                   waitingEntries, raised, excOn, excVal, cancelledFrom,
                   doneLog, schedAt, insOrder, refused, usedGone,
                   engineVars, simplePoolVars, utilVars>>

\* the body calls cancel() on its own task
BodyCancel(w) ==
    /\ th[w].pc = "body" /\ th[w].bodyLeft > 0
    /\ stateLock[th[w].task] = NoThread
    /\ LET t == th[w].task
           p == phase[t]
           r == State_cancel(p, w)
           c == CallResult(p, r)
       IN  /\ r.tag = "ret"
           /\ phase' = [phase EXCEPT ![t] = c.phase]
           /\ last' = [last EXCEPT ![w] = CancelOutcome(t, p, c, w)]
           /\ cancelledFrom' = CancelledBy(t, p, c)
           /\ seen' = Seen(t, p, c.phase)
    /\ th' = [th EXCEPT ![w].bodyLeft = @ - 1]
    /\ UNCHANGED <<now, delay, stateLock, queueVars, poolVars, callsLeft,
                   bodyRuns, waitingEntries, raised, excOn, excVal, doneLog,
                   schedAt, insOrder, refused, usedGone, engineVars,
                   simplePoolVars, utilVars>>

\* the body calls restart() on its own task
BodyRestart(w) ==
    /\ th[w].pc = "body" /\ th[w].bodyLeft > 0
    /\ stateLock[th[w].task] = NoThread
    /\ LET t == th[w].task
           p == phase[t]
           r == State_restart(p, w)
           c == CallResult(p, r)
       IN  /\ r.tag = "ret"
           /\ phase' = [phase EXCEPT ![t] = c.phase]
           /\ last' = [last EXCEPT ![w] =
                         Outcome("restart", t, p.kind, c.out, c.val)]
           /\ seen' = Seen(t, p, c.phase)
    /\ th' = [th EXCEPT ![w].bodyLeft = @ - 1]
    /\ UNCHANGED <<now, delay, stateLock, queueVars, poolVars, callsLeft,
                   bodyRuns, waitingEntries, raised, excOn, excVal,
                   cancelledFrom, doneLog, schedAt, insOrder, refused,
                   usedGone, engineVars, simplePoolVars, utilVars>>

\* _task() returns
BodyReturn(w) ==
    /\ th[w].pc = "body"
    /\ th' = [th EXCEPT ![w].pc = "done_call", ![w].bodyLeft = 0]
    /\ UNCHANGED <<now, phase, delay, stateLock, queueVars, poolVars, last,
                   callsLeft, ghostVars, engineVars, simplePoolVars, utilVars>>

\* _task() throws v, caught by catch (...) of DelayedTask::run
BodyRaise(w, v) ==
    /\ th[w].pc = "body"
    /\ th' = [th EXCEPT ![w].pc = "exc_call", ![w].exc = v,
              ![w].bodyLeft = 0]
    /\ raised' = [raised EXCEPT ![th[w].task] = v]
    /\ UNCHANGED <<now, phase, delay, stateLock, queueVars, poolVars, last,
                   callsLeft, bodyRuns, waitingEntries, excOn, excVal,
                   cancelledFrom, doneLog, seen, schedAt, insOrder, refused,
                   usedGone, engineVars, simplePoolVars, utilVars>>

\* _state.call<&State::done>()
DoneCall(w) ==
    /\ th[w].pc = "done_call"
    /\ stateLock[th[w].task] = NoThread
    /\ LET t == th[w].task
           p == phase[t]
           r == State_done(p, w)
           c == CallResult(p, r)
       IN  IF r.tag = "start"
           THEN /\ th' = [th EXCEPT ![w].pc = "start", ![w].op = "done",
                          ![w].kind = p.kind, ![w].pid = p.id]
                /\ stateLock' = [stateLock EXCEPT ![t] = w]
                /\ UNCHANGED <<phase, doneLog, seen>>
           ELSE /\ phase' = [phase EXCEPT ![t] = c.phase]
                /\ th' = [th EXCEPT ![w].pc = "notify"]
                /\ doneLog' = [doneLog EXCEPT ![t] =
                        IF c.out = "true" THEN "done" ELSE "rejected"]
                /\ seen' = Seen(t, p, c.phase)
                /\ UNCHANGED stateLock
    /\ UNCHANGED <<now, delay, queueVars, poolVars, last, callsLeft,
                   bodyRuns, waitingEntries, raised, excOn, excVal,
                   cancelledFrom, schedAt, insOrder, refused, usedGone,
                   engineVars, simplePoolVars, utilVars>>

\* StateRunning::done with _restartWanted -> DelayedTask::start ->
\* Timer::start -> Self::addTask: Queue::addTask under the queue's lock, the
\* lock of the task's state still held; then task->cancel() when it failed,
\* and task->isCancelled().  With the Timer gone _timer dangles: the call
\* may still find the memory of the freed queue as ~Self left it.
Start(w) ==
    /\ th[w].pc = "start"
    /\ QueueFree
    /\ LET t == th[w].task
           q == Queue_addTask(t, DueTime(delay[t]))
           thr == [th EXCEPT ![w].pc = "relock",
                   ![w].via = IF q.ok THEN "isCancelled" ELSE "cancel"]
       IN  /\ queue' = q.queue
           /\ mapping' = q.mapping
           /\ th' = IF q.notify THEN QueueNotify(thr) ELSE thr
           /\ doneLog' = [doneLog EXCEPT ![t] =
                            IF q.ok THEN "start_ok" ELSE "start_failed"]
           /\ schedAt' = IF q.ok THEN [schedAt EXCEPT ![t] = now]
                         ELSE schedAt
           /\ insOrder' = IF q.ok THEN Inserted(t) ELSE insOrder
    /\ usedGone' = (usedGone \/ TimerGone)
    /\ UNCHANGED <<now, phase, delay, stateLock, quit, maxQueueSize,
                   poolVars, last, callsLeft, bodyRuns, waitingEntries,
                   raised, excOn, excVal, cancelledFrom, seen, refused,
                   engineVars, simplePoolVars, utilVars>>

\* _state.call<&State::exception>(std::current_exception())
ExcCall(w) ==
    /\ th[w].pc = "exc_call"
    /\ stateLock[th[w].task] = NoThread
    /\ LET t == th[w].task
           p == phase[t]
           c == CallResult(p, State_exception(p, th[w].exc))
       IN  /\ phase' = [phase EXCEPT ![t] = c.phase]
           /\ excOn' = [excOn EXCEPT ![t] = p.kind]
           /\ excVal' = [excVal EXCEPT ![t] = th[w].exc]
           /\ seen' = Seen(t, p, c.phase)
    /\ th' = [th EXCEPT ![w].pc = "notify"]
    /\ UNCHANGED <<now, delay, stateLock, queueVars, poolVars, last,
                   callsLeft, bodyRuns, waitingEntries, raised,
                   cancelledFrom, doneLog, schedAt, insOrder, refused,
                   usedGone, engineVars, simplePoolVars, utilVars>>

\* the threads that wait on the condition variable of phase object p of
\* task t
WaitersOn(t, p) ==
    {x \in Threads : th[x].pc = "cancel_wait" /\ th[x].task = t
                     /\ th[x].pid = p.id}

\* _state.notifyAll(): Guard::notifyAll -> getSignalable() is the phase
\* object that is current now, and its condition variable is notified
NotifyAll(w) ==
    /\ th[w].pc = "notify"
    /\ LET t == th[w].task
           woken == WaitersOn(t, phase[t])
       IN  th' = [x \in Threads |->
                    IF x = w THEN IdleTh
                    ELSE IF x \in woken
                         THEN [th[x] EXCEPT !.pc = "cancel_woken"]
                         ELSE th[x]]
    /\ UNCHANGED <<now, phase, delay, stateLock, queueVars, poolVars, last,
                   callsLeft, ghostVars, engineVars, simplePoolVars, utilVars>>

\* ---------------------------------------- calls on the engine (State test)
\* Base::foo, Child::foo
Base_foo(p) == p.kind # "Child"

\* Child::oops, BadChild::oops
Base_oops(p) ==
    IF p.kind = "Child"
    THEN RequestState(BadChild(p.id + 1))
    ELSE RequestState(Child(p.id + 1))

\* the Requests a phase method called on p can return
Requests(p) ==
    {RequestBool(FALSE), RequestBool(TRUE),
     RequestState(Child(p.id + 1)), RequestState(BadChild(p.id + 1))}

\* graal.call<&Base::foo>(): foo returns no Request, so Switcher is not
\* valid and the member is called on the locked phase
EngineFoo(x) ==
    /\ gth[x].pc = "idle" /\ gCallsLeft > 0
    /\ gCallsLeft' = gCallsLeft - 1
    /\ glast' = [glast EXCEPT ![x] =
            [m |-> "foo", onKind |-> graal.kind, req |-> RequestBool(FALSE),
             stale |-> FALSE, out |-> BoolOut(Base_foo(graal)),
             before |-> graal, after |-> graal]]
    /\ UNCHANGED <<graal, gth, timerVars, simplePoolVars, utilVars>>

\* graal.call<&Base::oops>(): Switcher<member> for Request(State::*)(Args...)
EngineOops(x) ==
    /\ gth[x].pc = "idle" /\ gCallsLeft > 0
    /\ gCallsLeft' = gCallsLeft - 1
    /\ LET req == Base_oops(graal)
           sw == BaseSwitcher(graal, graal.id, req)
       IN  /\ graal' = sw.state
           /\ glast' = [glast EXCEPT ![x] =
                [m |-> "oops", onKind |-> graal.kind, req |-> req,
                 stale |-> FALSE, out |-> BoolOut(sw.ret),
                 before |-> graal, after |-> sw.state]]
    /\ UNCHANGED <<gth, timerVars, simplePoolVars, utilVars>>

\* call<member> of a method Request member(StateChanged<State>, Args...)
\* that returns req; with waits it first calls
\* waitForNotification(changed), which releases the lock of the cell
EngineCall(x, req, waits) ==
    /\ gth[x].pc = "idle" /\ gCallsLeft > 0
    /\ gCallsLeft' = gCallsLeft - 1
    /\ IF waits
       THEN /\ gth' = [gth EXCEPT ![x] =
                 [pc |-> "wait", m |-> "witness", pid |-> graal.id,
                  onKind |-> graal.kind, req |-> req]]
            /\ glast' = [glast EXCEPT ![x] = GNoLast]
            /\ UNCHANGED graal
       ELSE LET sw == BaseSwitcher(graal, graal.id, req)
            IN  /\ graal' = sw.state
                /\ glast' = [glast EXCEPT ![x] =
                     [m |-> "witness", onKind |-> graal.kind, req |-> req,
                      stale |-> FALSE, out |-> BoolOut(sw.ret),
                      before |-> graal, after |-> sw.state]]
                /\ UNCHANGED gth
    /\ UNCHANGED <<timerVars, simplePoolVars, utilVars>>

\* the wait ends with changed() true: the method returns its Request and
\* BaseSwitcher::operator() finishes the call
EngineResume(x) ==
    /\ gth[x].pc = "wait"
    /\ StateChanged(graal, gth[x].pid)
    /\ LET sw == BaseSwitcher(graal, gth[x].pid, gth[x].req)
       IN  /\ graal' = sw.state
           /\ glast' = [glast EXCEPT ![x] =
                [m |-> "witness", onKind |-> gth[x].onKind,
                 req |-> gth[x].req, stale |-> TRUE,
                 out |-> BoolOut(sw.ret), before |-> graal,
                 after |-> sw.state]]
    /\ gth' = [gth EXCEPT ![x] = GIdle]
    /\ UNCHANGED <<gCallsLeft, timerVars, simplePoolVars, utilVars>>

EngineNext ==
    \/ \E x \in EThreads : EngineFoo(x)
    \/ \E x \in EThreads : EngineOops(x)
    \/ \E x \in EThreads, waits \in BOOLEAN :
         \E req \in Requests(graal) : EngineCall(x, req, waits)
    \/ \E x \in EThreads : EngineResume(x)

SpecEngine == Init /\ [][EngineNext]_vars

TimerNext ==
    \/ Tick
    \/ \E u \in Users, t \in Tasks, d \in Delays : AddDelayedTask(u, t, d)
    \/ \E u \in Users, t \in Tasks : UserCancel(u, t)
    \/ \E u \in Users, t \in Tasks : UserRestart(u, t)
    \/ \E u \in Users, t \in Tasks, op \in Queries : UserQuery(u, t, op)
    \/ \E x \in Threads : CancelResume(x)
    \/ \E x \in Threads : Reschedule(x)
    \/ \E x \in Threads : UseAfterFree(x)
    \/ \E x \in Threads : RelockHang(x)
    \/ \E x \in Threads : RelockThrow(x)
    \/ DispGetTask
    \/ DispWake
    \/ DispSubmit
    \/ DispCancel
    \/ TimerStop(Owner)
    \/ TimerJoin(Owner)
    \/ CancelAll(Owner)
    \/ TimerDestroyed(Owner)
    \/ PoolStop
    \/ \E w \in Workers : WorkerTake(w)
    \/ \E w \in Workers : WorkerWait(w)
    \/ \E w \in Workers : WorkerWake(w)
    \/ \E w \in Workers : WorkerExit(w)
    \/ \E w \in Workers : RunCall(w)
    \/ \E w \in Workers : BodyCancel(w)
    \/ \E w \in Workers : BodyRestart(w)
    \/ \E w \in Workers : BodyReturn(w)
    \/ \E w \in Workers, v \in ExcValues : BodyRaise(w, v)
    \/ \E w \in Workers : DoneCall(w)
    \/ \E w \in Workers : Start(w)
    \/ \E w \in Workers : ExcCall(w)
    \/ \E w \in Workers : NotifyAll(w)

Next == TimerNext

Spec == Init /\ [][Next]_vars

\* ------------------------------------- the pool of the ThreadPool tests
\* ThreadPool::createSimple(threadCount, handler): the constructor starts
\* threadCount threads that execute run()
PoolCreate(n, h) ==
    /\ poolPc = "none"
    /\ poolPc' = "alive"
    /\ threadCount' = n
    /\ hasHandler' = h
    /\ wk' = [w \in PoolWorkers |->
                 IF w <= n THEN [NoWorker EXCEPT !.pc = "idle"]
                 ELSE NoWorker]
    /\ UNCHANGED <<tq, tqQuit, nextJob, accepted, dequeued, started,
                   finished, afterQuit, threw, sunk, lastAdd, timerVars,
                   engineVars, utilVars>>

\* the workers that are blocked in the wait of TaskQueue::getTask
Blocked == {w \in PoolWorkers : wk[w].pc = "wait" /\ ~wk[w].notified}

\* TaskQueue::addTask that does not call notifyOne()
TaskQueue_push_noNotify(q, qt, task) ==
    IF qt \/ task = NoTask
    THEN [ok |-> FALSE, queue |-> q, notify |-> FALSE]
    ELSE [ok |-> TRUE, queue |-> Append(q, task), notify |-> FALSE]

\* TaskQueue::addTask that does not test _quit
TaskQueue_push_afterQuit(q, qt, task) ==
    IF task = NoTask
    THEN [ok |-> FALSE, queue |-> q, notify |-> FALSE]
    ELSE [ok |-> TRUE, queue |-> Append(q, task), notify |-> TRUE]

\* TaskQueue::addTask on the queue q with _quit = qt
TaskQueue_push(q, qt, task) ==
    IF qt \/ task = NoTask
    THEN [ok |-> FALSE, queue |-> q, notify |-> FALSE]
    ELSE [ok |-> TRUE, queue |-> Append(q, task), notify |-> TRUE]

\* SimpleThreadPool::addTask of a new task, or of an empty std::function:
\* notify_one wakes one of the blocked workers
PoolAddTask(empty) ==
    /\ poolPc \in {"alive", "joining"}
    /\ nextJob <= MaxJobs
    /\ LET task == IF empty THEN NoTask ELSE nextJob
           r == TaskQueue_push(tq, tqQuit, task)
           wakes == r.notify /\ Blocked # {}
       IN  /\ tq' = r.queue
           /\ IF wakes
              THEN \E w \in Blocked : wk' = [wk EXCEPT ![w].notified = TRUE]
              ELSE UNCHANGED wk
           /\ accepted' = IF r.ok THEN Append(accepted, task) ELSE accepted
           /\ lastAdd' = [task |-> task, ok |-> r.ok, quitBefore |-> tqQuit,
                          before |-> tq, after |-> r.queue,
                          notified |-> r.notify]
    /\ nextJob' = nextJob + 1
    /\ UNCHANGED <<threadCount, hasHandler, tqQuit, poolPc, dequeued,
                   started, finished, afterQuit, threw, sunk, timerVars,
                   engineVars, utilVars>>

\* TaskQueue::stop that does not call notifyAll()
TaskQueue_stop_notifyNone == [quit |-> TRUE, wk |-> wk]

\* TaskQueue::stop: _quit = true; notifyAll()
TaskQueue_stop ==
    [quit |-> TRUE,
     wk |-> [w \in PoolWorkers |->
                IF wk[w].pc = "wait"
                THEN [wk[w] EXCEPT !.notified = TRUE]
                ELSE wk[w]]]

\* ~SimpleThreadPool: _queue.lock()->stop(), then the joins
PoolDestroy ==
    /\ poolPc = "alive"
    /\ poolPc' = "joining"
    /\ tqQuit' = TaskQueue_stop.quit
    /\ wk' = TaskQueue_stop.wk
    /\ UNCHANGED <<threadCount, hasHandler, tq, nextJob, accepted, dequeued,
                   started, finished, afterQuit, threw, sunk, lastAdd,
                   timerVars, engineVars, utilVars>>

\* ~SimpleThreadPool: thread.join() has returned for every worker
PoolJoined ==
    /\ poolPc = "joining"
    /\ \A w \in 1..threadCount : wk[w].pc = "exited"
    /\ poolPc' = "destroyed"
    /\ UNCHANGED <<threadCount, hasHandler, tq, tqQuit, wk, nextJob,
                   accepted, dequeued, started, finished, afterQuit, threw,
                   sunk, lastAdd, timerVars, engineVars, utilVars>>

\* TaskQueue::getTask that leaves the task it returns in the queue
TaskQueue_getTask_noPop(q) == [task |-> Head(q), queue |-> q]

\* TaskQueue::getTask that takes the task added last
TaskQueue_getTask_back(q) ==
    [task |-> q[Len(q)], queue |-> SubSeq(q, 1, Len(q) - 1)]

\* TaskQueue::getTask: _queue.front(), _queue.pop()
TaskQueue_getTask(q) == [task |-> Head(q), queue |-> Tail(q)]

\* worker w returns from getTask with the head of the queue and calls it
TakeJob(w, how) ==
    LET g == TaskQueue_getTask(tq)
    IN  /\ tq' = g.queue
        /\ wk' = [wk EXCEPT ![w] = [@ EXCEPT !.pc = "body", !.job = g.task,
                                    !.notified = FALSE, !.via = how]]
        /\ dequeued' = Append(dequeued, g.task)
        /\ started' = [started EXCEPT ![g.task] = @ + 1]
        /\ afterQuit' = [afterQuit EXCEPT ![g.task] = @ \/ tqQuit]

\* SimpleThreadPool::run calls _queue.lock()->getTask(): the loop ends at
\* once on _quit, a task that is there is taken (the predicate of the wait
\* holds), else the worker waits
PoolWorkerGet(w) ==
    /\ poolPc \in {"alive", "joining"}
    /\ wk[w].pc = "idle"
    /\ IF tqQuit
       THEN /\ wk' = [wk EXCEPT ![w].pc = "exited"]
            /\ UNCHANGED <<tq, dequeued, started, afterQuit>>
       ELSE IF tq # <<>>
            THEN TakeJob(w, "entry")
            ELSE /\ wk' = [wk EXCEPT ![w].pc = "wait",
                                     ![w].notified = FALSE]
                 /\ UNCHANGED <<tq, dequeued, started, afterQuit>>
    /\ UNCHANGED <<threadCount, hasHandler, tqQuit, poolPc, nextJob,
                   accepted, finished, threw, sunk, lastAdd, timerVars,
                   engineVars, utilVars>>

\* the worker has the lock again inside _cv.wait(lock, predicate): with
\* _quit || !_queue.empty() the wait is over, a task that is there is
\* taken and else getTask returns {}; with the predicate false the worker
\* blocks again
AfterWait(w) ==
    IF tq # <<>>
    THEN TakeJob(w, "wake")
    ELSE /\ wk' = [wk EXCEPT ![w].pc = IF tqQuit THEN "exited" ELSE "wait",
                             ![w].notified = FALSE]
         /\ UNCHANGED <<tq, dequeued, started, afterQuit>>

\* a notified worker wakes up
PoolWorkerWake(w) ==
    /\ poolPc \in {"alive", "joining"}
    /\ wk[w].pc = "wait"
    /\ wk[w].notified
    /\ AfterWait(w)
    /\ UNCHANGED <<threadCount, hasHandler, tqQuit, poolPc, nextJob,
                   accepted, finished, threw, sunk, lastAdd, timerVars,
                   engineVars, utilVars>>

\* a worker that nobody notified wakes up (spurious wake-up) and finds the
\* predicate true
PoolWorkerSpurious(w) ==
    /\ poolPc \in {"alive", "joining"}
    /\ wk[w].pc = "wait"
    /\ ~wk[w].notified
    /\ tqQuit \/ tq # <<>>
    /\ AfterWait(w)
    /\ UNCHANGED <<threadCount, hasHandler, tqQuit, poolPc, nextJob,
                   accepted, finished, threw, sunk, lastAdd, timerVars,
                   engineVars, utilVars>>

\* task() returns
PoolBodyReturn(w) ==
    /\ poolPc \in {"alive", "joining"}
    /\ wk[w].pc = "body"
    /\ finished' = [finished EXCEPT ![wk[w].job] = TRUE]
    /\ wk' = [wk EXCEPT ![w].pc = "idle"]
    /\ UNCHANGED <<threadCount, hasHandler, tq, tqQuit, poolPc, nextJob,
                   accepted, dequeued, started, afterQuit, threw, sunk,
                   lastAdd, timerVars, engineVars, utilVars>>

\* catch (...) of run() that hands every exception to a handler
Run_catch_alwaysSink(h) == "sink"

\* catch (...) of SimpleThreadPool::run: if (!_handler) std::terminate();
\* _handler(std::current_exception())
Run_catch(h) == IF h THEN "sink" ELSE "terminate"

\* task() throws
PoolBodyRaise(w) ==
    /\ poolPc \in {"alive", "joining"}
    /\ wk[w].pc = "body"
    /\ threw' = [threw EXCEPT ![wk[w].job] = TRUE]
    /\ IF Run_catch(hasHandler) = "sink"
       THEN /\ sunk' = [sunk EXCEPT ![wk[w].job] = @ + 1]
            /\ finished' = [finished EXCEPT ![wk[w].job] = TRUE]
            /\ wk' = [wk EXCEPT ![w].pc = "idle", ![w].forwarded = TRUE]
            /\ UNCHANGED poolPc
       ELSE /\ poolPc' = "terminated"
            /\ wk' = [x \in PoolWorkers |->
                         IF wk[x].pc = "none" THEN wk[x]
                         ELSE [wk[x] EXCEPT !.pc = "aborted"]]
            /\ UNCHANGED <<sunk, finished>>
    /\ UNCHANGED <<threadCount, hasHandler, tq, tqQuit, nextJob, accepted,
                   dequeued, started, afterQuit, lastAdd, timerVars,
                   engineVars, utilVars>>

PoolNext ==
    \/ \E n \in 1..MaxWorkers, h \in BOOLEAN : PoolCreate(n, h)
    \/ \E empty \in BOOLEAN : PoolAddTask(empty)
    \/ PoolDestroy
    \/ PoolJoined
    \/ \E w \in PoolWorkers : PoolWorkerGet(w)
    \/ \E w \in PoolWorkers : PoolWorkerWake(w)
    \/ \E w \in PoolWorkers : PoolWorkerSpurious(w)
    \/ \E w \in PoolWorkers : PoolBodyReturn(w)
    \/ \E w \in PoolWorkers : PoolBodyRaise(w)

SpecPool == Init /\ [][PoolNext]_vars

\* the threads of the pool are scheduled, a notified worker wakes up, the
\* bodies of the tasks terminate, a join returns when the thread has ended
PoolFairness ==
    /\ \A w \in PoolWorkers :
          /\ WF_vars(PoolWorkerGet(w))
          /\ WF_vars(PoolWorkerWake(w))
          /\ WF_vars(PoolBodyReturn(w) \/ PoolBodyRaise(w))
    /\ WF_vars(PoolJoined)

SpecPoolFair == SpecPool /\ PoolFairness


\* ----------------------------- the lock slot of a notifiable guarded object
\* SignalableLock(Mutex &, EnableConditionNotification &): the write lock
\* installs itself in the slot; SignalableLock(Mutex &), the lock of the
\* const accessors, has no object and leaves the slot alone
SignalableLock_ctor(slots, obj, x, write) ==
    IF write THEN [slots EXCEPT ![obj] = x] ELSE slots

\* ~SignalableLock: if (_object) _object->setSignalableLock(nullptr)
SignalableLock_dtor(slots, obj, write) ==
    IF write THEN [slots EXCEPT ![obj] = NoLockPtr] ELSE slots

\* waitForNotification without the test of _lock
WaitEntry_noCheck(slotval, x) ==
    IF slotval = x \/ slotval = NoLockPtr THEN "wait" ELSE "system_error"

\* waitForNotification of thread x on an object whose slot holds slotval:
\* if (!_lock) throw std::logic_error; else _cv.wait(*_lock, ...), which
\* unlocks *_lock: a lock of another thread that does not own the mutex
\* throws std::system_error from unlock()
WaitEntry(slotval, x) ==
    IF slotval = NoLockPtr THEN "logic_error"
    ELSE IF slotval = x THEN "wait"
    ELSE "system_error"

\* waitForNotification without the Defer that restores the slot
WaitExit_noRestore(captured, current) == current

\* the Defer of waitForNotification: setSignalableLock(lock) with the
\* value of _lock captured on entry
WaitExit(captured, current) == captured

\* Guard::lock(), Guard::lock(F) (write) and the const accessors (read):
\* the mutex is locked, then the slot of the guarded object is set
CellLock(x, write) ==
    /\ sec[x].pc = "out"
    /\ cellMutex = NoThread
    /\ sectionsLeft > 0
    /\ sectionsLeft' = sectionsLeft - 1
    /\ cellMutex' = x
    /\ cellSlot' = SignalableLock_ctor(cellSlot, cellObj, x, write)
    /\ sec' = [y \in SThreads |->
                 IF y = x
                 THEN [pc |-> "in", write |-> write, obj |-> cellObj,
                       captured |-> NoLockPtr, waits |-> 0,
                       others |-> FALSE]
                 ELSE IF sec[y].pc = "waiting"
                      THEN [sec[y] EXCEPT !.others = TRUE]
                      ELSE sec[y]]
    /\ UNCHANGED <<cellObj, cellFreed, staleWrite, lastWait>>
    /\ UNCHANGED <<timerVars, engineVars, simplePoolVars, deferVars,
                   onceVars, handleVars>>

\* the code of the section calls waitForNotification on the object it
\* works on
CellWait(x) ==
    /\ sec[x].pc = "in"
    /\ sec[x].waits < MaxWaits
    /\ LET sv == cellSlot[sec[x].obj]
           e == WaitEntry(sv, x)
       IN  IF e = "wait"
           THEN /\ sec' = [sec EXCEPT ![x].pc = "waiting",
                                      ![x].captured = sv,
                                      ![x].others = FALSE]
                /\ cellMutex' = NoThread
                /\ UNCHANGED lastWait
           ELSE /\ sec' = [sec EXCEPT ![x].pc = "failed"]
                /\ lastWait' = [lastWait EXCEPT ![x] =
                      [out |-> e, write |-> sec[x].write,
                       slotBefore |-> sv, slotAfter |-> sv,
                       mutexBefore |-> cellMutex, mutexAfter |-> cellMutex,
                       others |-> FALSE, waits |-> sec[x].waits]]
                /\ UNCHANGED cellMutex
    /\ UNCHANGED <<cellObj, cellSlot, cellFreed, staleWrite, sectionsLeft>>
    /\ UNCHANGED <<timerVars, engineVars, simplePoolVars, deferVars,
                   onceVars, handleVars>>

\* the wait ends (notified, timed out or woken spuriously, the predicate
\* true): the mutex is locked again, then the Defer restores the slot
CellWake(x) ==
    /\ sec[x].pc = "waiting"
    /\ cellMutex = NoThread
    /\ cellMutex' = x
    /\ LET after == WaitExit(sec[x].captured, cellSlot[sec[x].obj])
       IN  /\ cellSlot' = [cellSlot EXCEPT ![sec[x].obj] = after]
           /\ lastWait' = [lastWait EXCEPT ![x] =
                 [out |-> "returned", write |-> sec[x].write,
                  slotBefore |-> sec[x].captured, slotAfter |-> after,
                  mutexBefore |-> x, mutexAfter |-> x,
                  others |-> sec[x].others, waits |-> sec[x].waits + 1]]
    /\ sec' = [sec EXCEPT ![x].pc = "in", ![x].waits = @ + 1]
    /\ UNCHANGED <<cellObj, cellFreed, staleWrite, sectionsLeft>>
    /\ UNCHANGED <<timerVars, engineVars, simplePoolVars, deferVars,
                   onceVars, handleVars>>

\* BaseSwitcher::operator(): state.swap(newState) in a write section whose
\* object is still the current one
CellSwap(x) ==
    /\ sec[x].pc = "in"
    /\ sec[x].write
    /\ sec[x].obj = cellObj
    /\ cellObj <= MaxCellSwaps
    /\ cellObj' = cellObj + 1
    /\ UNCHANGED <<cellSlot, cellMutex, cellFreed, sec, lastWait,
                   staleWrite, sectionsLeft>>
    /\ UNCHANGED <<timerVars, engineVars, simplePoolVars, deferVars,
                   onceVars, handleVars>>

\* the section ends, by return or by exception: the shared_ptrs of the
\* section (persistent, newState) are destroyed, which frees an object
\* that is no longer the current one unless a waiter refers to it; then
\* ~SignalableLock writes the slot of the object it was made with and
\* unlocks the mutex
CellUnlock(x) ==
    /\ sec[x].pc \in {"in", "failed"}
    /\ LET obj == sec[x].obj
           freedNow == /\ obj # cellObj
                       /\ \A y \in SThreads \ {x} :
                             sec[y].pc = "out" \/ sec[y].obj # obj
       IN  /\ cellFreed' = IF freedNow THEN cellFreed \cup {obj}
                           ELSE cellFreed
           /\ IF freedNow /\ sec[x].write
              THEN /\ staleWrite' = TRUE
                   /\ UNCHANGED cellSlot
              ELSE /\ cellSlot' =
                        SignalableLock_dtor(cellSlot, obj, sec[x].write)
                   /\ UNCHANGED staleWrite
    /\ cellMutex' = NoThread
    /\ sec' = [sec EXCEPT ![x] = NoSection]
    /\ UNCHANGED <<cellObj, lastWait, sectionsLeft>>
    /\ UNCHANGED <<timerVars, engineVars, simplePoolVars, deferVars,
                   onceVars, handleVars>>

SlotNext ==
    \/ \E x \in SThreads, write \in BOOLEAN : CellLock(x, write)
    \/ \E x \in SThreads : CellWait(x)
    \/ \E x \in SThreads : CellWake(x)
    \/ \E x \in SThreads : CellSwap(x)
    \/ \E x \in SThreads : CellUnlock(x)

SpecSlot == Init /\ [][SlotNext]_vars

\* ------------------------------------------------------------------ Defer
\* Defer::pass
Defer_pass(d) == [d EXCEPT !.called = TRUE]

\* Defer::run: the holder afterwards and the callback that was called
Defer_run(d) ==
    IF ~d.called
    THEN [d |-> Defer_pass(d), ran |-> d.cb]
    ELSE [d |-> d, ran |-> NoCallback]

\* Defer(Defer &&other): callback and called are taken over, other.pass()
Defer_move(other) ==
    [new |-> [st |-> "alive", cb |-> other.cb, called |-> other.called],
     other |-> Defer_pass(other)]

\* Defer::swap
Defer_swap(a, b) ==
    [a |-> [a EXCEPT !.cb = b.cb, !.called = b.called],
     b |-> [b EXCEPT !.cb = a.cb, !.called = a.called]]

\* Defer &operator=(Defer other): pass(); swap(other); then the parameter
\* other is destroyed, which calls other.run()
Defer_assign(this, other) ==
    LET sw == Defer_swap(Defer_pass(this), other)
    IN  [this |-> sw.a, ran |-> Defer_run(sw.b).ran]

\* the callback c has been called once more
Ran(c) == IF c = NoCallback THEN runs ELSE [runs EXCEPT ![c] = @ + 1]

\* Defer(Callback callback), makeDefer
DeferMake(h) ==
    /\ dfr[h].st = "none"
    /\ nextCb <= MaxCallbacks
    /\ dfr' = [dfr EXCEPT ![h] =
                 [st |-> "alive", cb |-> nextCb, called |-> FALSE]]
    /\ nextCb' = nextCb + 1
    /\ UNCHANGED <<runs, userPassed, deferOpsLeft>>
    /\ UNCHANGED <<timerVars, engineVars, simplePoolVars, slotVars,
                   onceVars, handleVars>>

\* Defer h(std::move(g))
DeferMoveCtor(h, g) ==
    /\ dfr[h].st = "none" /\ dfr[g].st = "alive"
    /\ deferOpsLeft > 0
    /\ deferOpsLeft' = deferOpsLeft - 1
    /\ LET m == Defer_move(dfr[g])
       IN  dfr' = [dfr EXCEPT ![h] = m.new, ![g] = m.other]
    /\ UNCHANGED <<runs, userPassed, nextCb>>
    /\ UNCHANGED <<timerVars, engineVars, simplePoolVars, slotVars,
                   onceVars, handleVars>>

\* h = std::move(g): the parameter of operator= is move-constructed from g
DeferAssign(h, g) ==
    /\ h # g
    /\ dfr[h].st = "alive" /\ dfr[g].st = "alive"
    /\ deferOpsLeft > 0
    /\ deferOpsLeft' = deferOpsLeft - 1
    /\ LET m == Defer_move(dfr[g])
           a == Defer_assign(dfr[h], m.new)
       IN  /\ dfr' = [dfr EXCEPT ![h] = a.this, ![g] = m.other]
           /\ runs' = Ran(a.ran)
    /\ UNCHANGED <<userPassed, nextCb>>
    /\ UNCHANGED <<timerVars, engineVars, simplePoolVars, slotVars,
                   onceVars, handleVars>>

\* Defer &operator=(Callback c): callback = std::move(c); called = false
DeferAssignCallback(h) ==
    /\ dfr[h].st = "alive"
    /\ nextCb <= MaxCallbacks
    /\ deferOpsLeft > 0
    /\ deferOpsLeft' = deferOpsLeft - 1
    /\ dfr' = [dfr EXCEPT ![h].cb = nextCb, ![h].called = FALSE]
    /\ nextCb' = nextCb + 1
    /\ UNCHANGED <<runs, userPassed>>
    /\ UNCHANGED <<timerVars, engineVars, simplePoolVars, slotVars,
                   onceVars, handleVars>>

\* h.run()
DeferRun(h) ==
    /\ dfr[h].st = "alive"
    /\ deferOpsLeft > 0
    /\ deferOpsLeft' = deferOpsLeft - 1
    /\ dfr' = [dfr EXCEPT ![h] = Defer_run(dfr[h]).d]
    /\ runs' = Ran(Defer_run(dfr[h]).ran)
    /\ UNCHANGED <<userPassed, nextCb>>
    /\ UNCHANGED <<timerVars, engineVars, simplePoolVars, slotVars,
                   onceVars, handleVars>>

\* h.pass(), called by the user of h
DeferPass(h) ==
    /\ dfr[h].st = "alive"
    /\ deferOpsLeft > 0
    /\ deferOpsLeft' = deferOpsLeft - 1
    /\ dfr' = [dfr EXCEPT ![h] = Defer_pass(dfr[h])]
    /\ userPassed' = IF dfr[h].called THEN userPassed
                     ELSE [userPassed EXCEPT ![dfr[h].cb] = TRUE]
    /\ UNCHANGED <<runs, nextCb>>
    /\ UNCHANGED <<timerVars, engineVars, simplePoolVars, slotVars,
                   onceVars, handleVars>>

\* h.swap(g)
DeferSwap(h, g) ==
    /\ h < g
    /\ dfr[h].st = "alive" /\ dfr[g].st = "alive"
    /\ deferOpsLeft > 0
    /\ deferOpsLeft' = deferOpsLeft - 1
    /\ LET sw == Defer_swap(dfr[h], dfr[g])
       IN  dfr' = [dfr EXCEPT ![h] = sw.a, ![g] = sw.b]
    /\ UNCHANGED <<runs, userPassed, nextCb>>
    /\ UNCHANGED <<timerVars, engineVars, simplePoolVars, slotVars,
                   onceVars, handleVars>>

\* ~Defer: run()
DeferDestroy(h) ==
    /\ dfr[h].st = "alive"
    /\ dfr' = [dfr EXCEPT ![h] = [Defer_run(dfr[h]).d EXCEPT
                                     !.st = "destroyed"]]
    /\ runs' = Ran(Defer_run(dfr[h]).ran)
    /\ UNCHANGED <<userPassed, nextCb, deferOpsLeft>>
    /\ UNCHANGED <<timerVars, engineVars, simplePoolVars, slotVars,
                   onceVars, handleVars>>

DeferNext ==
    \/ \E h \in DHolders : DeferMake(h)
    \/ \E h, g \in DHolders : DeferMoveCtor(h, g)
    \/ \E h, g \in DHolders : DeferAssign(h, g)
    \/ \E h \in DHolders : DeferAssignCallback(h)
    \/ \E h \in DHolders : DeferRun(h)
    \/ \E h \in DHolders : DeferPass(h)
    \/ \E h, g \in DHolders : DeferSwap(h, g)
    \/ \E h \in DHolders : DeferDestroy(h)

SpecDefer == Init /\ [][DeferNext]_vars

\* ------------------------------------------------------------------- Once
\* flags & bit
HasFlag(flags, bit) == (flags \div bit) % 2 = 1

\* compare_exchange_strong(expected, desired) on _flags: the new value of
\* _flags, whether the exchange was made, and the new value of expected
CompareExchange(flags, expected, desired) ==
    IF flags = expected
    THEN [ok |-> TRUE, flags |-> desired, expected |-> expected]
    ELSE [ok |-> FALSE, flags |-> flags, expected |-> flags]

\* an init that also starts on a Once that has its value
Once_initBegin_overValue(flags) ==
    IF flags \in {EMPTY, HAS_VALUE}
    THEN [ok |-> TRUE, flags |-> INITIALIZATION, expected |-> EMPTY]
    ELSE [ok |-> FALSE, flags |-> flags, expected |-> flags]

\* Once::init, its first statement:
\* int expected = EMPTY; _flags.compare_exchange_strong(expected,
\* INITIALIZATION)
Once_initBegin(flags) == CompareExchange(flags, EMPTY, INITIALIZATION)

\* Once::get: the pointer returned for a value of _flags without
\* INITIALIZATION
Once_get(flags) == IF HasFlag(flags, HAS_VALUE) THEN "object" ELSE "null"

\* a disable that leaves the flags as they are
Once_disable_desired_same(expected) == expected

\* Once::disable, desired = expected | DISABLED
Once_disable_desired(expected) ==
    IF HasFlag(expected, DISABLED) THEN expected ELSE expected + DISABLED

\* operator=, create, emplace: init(how) begins
OnceInitBegin(x) ==
    /\ oth[x].pc = "idle"
    /\ onceCallsLeft > 0
    /\ onceCallsLeft' = onceCallsLeft - 1
    /\ LET c == Once_initBegin(oFlags)
       IN  /\ oFlags' = c.flags
           /\ IF c.ok
              THEN /\ oth' = [oth EXCEPT ![x].pc = "how",
                                         ![x].expected = c.expected]
                   /\ UNCHANGED lastInit
                   /\ howRuns' = [over |-> howRuns.over \/ completed > 0,
                                  n |-> howRuns.n + 1]
              ELSE /\ lastInit' = [lastInit EXCEPT ![x] =
                          [out |-> "false", afterDisable |-> disDone]]
                   /\ UNCHANGED <<oth, howRuns>>
    /\ UNCHANGED <<oObject, initTrue, completed, lastGet, disDone, disRet,
                   disRaced, threwCount>>
    /\ UNCHANGED <<timerVars, engineVars, simplePoolVars, slotVars,
                   deferVars, handleVars>>

\* how() runs: it stores the object, or it throws
OnceHow(x, throws) ==
    /\ oth[x].pc = "how"
    /\ oth' = [oth EXCEPT ![x].pc = IF throws THEN "how_threw"
                                    ELSE "how_done"]
    /\ oObject' = IF throws THEN oObject ELSE x
    /\ UNCHANGED <<oFlags, initTrue, completed, lastGet, lastInit, disDone,
                   disRet, disRaced, threwCount, howRuns, onceCallsLeft>>
    /\ UNCHANGED <<timerVars, engineVars, simplePoolVars, slotVars,
                   deferVars, handleVars>>

\* init ends: catch (...) { _flags = expected; throw; } or
\* _flags = HAS_VALUE; return true
OnceInitEnd(x) ==
    /\ oth[x].pc \in {"how_threw", "how_done"}
    /\ IF oth[x].pc = "how_threw"
       THEN /\ oFlags' = oth[x].expected
            /\ lastInit' = [lastInit EXCEPT ![x] =
                   [out |-> "threw", afterDisable |-> disDone]]
            /\ threwCount' = threwCount + 1
            /\ UNCHANGED <<initTrue, completed>>
       ELSE /\ oFlags' = HAS_VALUE
            /\ lastInit' = [lastInit EXCEPT ![x] =
                   [out |-> "true", afterDisable |-> disDone]]
            /\ initTrue' = initTrue + 1
            /\ completed' = completed + 1
            /\ UNCHANGED threwCount
    /\ oth' = [oth EXCEPT ![x].pc = "idle"]
    /\ UNCHANGED <<oObject, lastGet, disDone, disRet, disRaced, howRuns,
                   onceCallsLeft>>
    /\ UNCHANGED <<timerVars, engineVars, simplePoolVars, slotVars,
                   deferVars, handleVars>>

\* Once::get of a derived class: the loop goes on while INITIALIZATION is
\* set
OnceGet(x) ==
    /\ oth[x].pc = "idle"
    /\ onceCallsLeft > 0
    /\ ~HasFlag(oFlags, INITIALIZATION)
    /\ onceCallsLeft' = onceCallsLeft - 1
    /\ lastGet' = [lastGet EXCEPT ![x] =
           [ptr |-> Once_get(oFlags), completed |-> completed,
            afterDisable |-> disDone, disRet |-> disRet]]
    /\ UNCHANGED <<oFlags, oObject, oth, initTrue, completed, lastInit,
                   disDone, disRet, disRaced, threwCount, howRuns>>
    /\ UNCHANGED <<timerVars, engineVars, simplePoolVars, slotVars,
                   deferVars, handleVars>>

\* Once::disable: int expected = self->_flags
OnceDisableBegin(x) ==
    /\ oth[x].pc = "idle"
    /\ onceCallsLeft > 0
    /\ onceCallsLeft' = onceCallsLeft - 1
    /\ oth' = [oth EXCEPT ![x].pc = "dis_loop", ![x].expected = oFlags]
    /\ UNCHANGED <<oFlags, oObject, initTrue, completed, lastGet, lastInit,
                   disDone, disRet, disRaced, threwCount, howRuns>>
    /\ UNCHANGED <<timerVars, engineVars, simplePoolVars, slotVars,
                   deferVars, handleVars>>

\* Once::disable: one round of the do-while loop
OnceDisableLoop(x) ==
    /\ oth[x].pc = "dis_loop"
    /\ IF HasFlag(oth[x].expected, DISABLED)
       THEN /\ oth' = [oth EXCEPT ![x].pc = "dis_get"]
            /\ UNCHANGED <<oFlags, disRaced>>
       ELSE LET e == IF HasFlag(oth[x].expected, INITIALIZATION)
                     THEN HAS_VALUE ELSE oth[x].expected
                c == CompareExchange(oFlags, e, Once_disable_desired(e))
            IN  /\ oFlags' = c.flags
                /\ oth' = [oth EXCEPT
                      ![x].pc = IF c.ok THEN "dis_get" ELSE "dis_loop",
                      ![x].expected = c.expected]
                /\ disRaced' = (disRaced \/
                                  (~c.ok /\ HasFlag(oFlags, INITIALIZATION)))
    /\ UNCHANGED <<oObject, initTrue, completed, lastGet, lastInit,
                   disDone, disRet, threwCount, howRuns, onceCallsLeft>>
    /\ UNCHANGED <<timerVars, engineVars, simplePoolVars, slotVars,
                   deferVars, handleVars>>

\* Once::disable: return get(self).  The first disable() that returns
\* fixes disRet; a later one is recorded as a get
OnceDisableEnd(x) ==
    /\ oth[x].pc = "dis_get"
    /\ ~HasFlag(oFlags, INITIALIZATION)
    /\ oth' = [oth EXCEPT ![x].pc = "idle"]
    /\ IF disDone
       THEN /\ lastGet' = [lastGet EXCEPT ![x] =
                   [ptr |-> Once_get(oFlags), completed |-> completed,
                    afterDisable |-> TRUE, disRet |-> disRet]]
            /\ UNCHANGED <<disDone, disRet>>
       ELSE /\ disDone' = TRUE
            /\ disRet' = Once_get(oFlags)
            /\ UNCHANGED lastGet
    /\ UNCHANGED <<oFlags, oObject, initTrue, completed, lastInit,
                   disRaced, threwCount, howRuns, onceCallsLeft>>
    /\ UNCHANGED <<timerVars, engineVars, simplePoolVars, slotVars,
                   deferVars, handleVars>>

OnceNext ==
    \/ \E x \in OThreads : OnceInitBegin(x)
    \/ \E x \in OThreads, throws \in BOOLEAN : OnceHow(x, throws)
    \/ \E x \in OThreads : OnceInitEnd(x)
    \/ \E x \in OThreads : OnceGet(x)
    \/ \E x \in OThreads : OnceDisableBegin(x)
    \/ \E x \in OThreads : OnceDisableLoop(x)
    \/ \E x \in OThreads : OnceDisableEnd(x)

SpecOnce == Init /\ [][OnceNext]_vars

\* ----------------------------------------------------------- Timer::Handle
\* std::terminate or a crash has ended the process
HandleProcessEnded ==
    \E h \in Handles : hOut[h] \in {"terminated", "crashed"}

\* Timer::addDelayedTask returns the Handle of a new task, which is
\* Waiting
HandleMake(h, t) ==
    /\ ~HandleProcessEnded
    /\ hnd[h].st = "none"
    /\ hPhase[t] = NoState
    /\ hnd' = [hnd EXCEPT ![h] = [st |-> "alive", task |-> t, pid |-> 0]]
    /\ hPhase' = [hPhase EXCEPT ![t] = StateWaiting(1)]
    /\ UNCHANGED hOut
    /\ UNCHANGED <<timerVars, engineVars, simplePoolVars, slotVars,
                   deferVars, onceVars>>

\* DelayedTask::run on a worker: _state.call<&State::run>()
HandleTaskRun(t) ==
    /\ ~HandleProcessEnded
    /\ hPhase[t].kind = "Waiting"
    /\ hPhase' = [hPhase EXCEPT ![t] =
                    CallResult(@, State_run(@, "w1")).phase]
    /\ UNCHANGED <<hnd, hOut>>
    /\ UNCHANGED <<timerVars, engineVars, simplePoolVars, slotVars,
                   deferVars, onceVars>>

\* DelayedTask::run: the body has returned (done) or thrown (exception)
HandleTaskEnd(t, throws) ==
    /\ ~HandleProcessEnded
    /\ hPhase[t].kind = "Running"
    /\ hPhase' = [hPhase EXCEPT ![t] =
            IF throws
            THEN CallResult(@, State_exception(@, "E1")).phase
            ELSE CallResult(@, State_done(@, "w1")).phase]
    /\ UNCHANGED <<hnd, hOut>>
    /\ UNCHANGED <<timerVars, engineVars, simplePoolVars, slotVars,
                   deferVars, onceVars>>

\* Handle(Handle &&other): _task(std::move(other._task)) leaves other
\* with an empty shared_ptr
HandleMove(h, g) ==
    /\ ~HandleProcessEnded
    /\ hnd[h].st = "none" /\ hnd[g].st = "alive"
    /\ hnd' = [hnd EXCEPT ![h] = [st |-> "alive", task |-> hnd[g].task,
                                  pid |-> 0],
                          ![g].task = NoTaskPtr]
    /\ UNCHANGED <<hPhase, hOut>>
    /\ UNCHANGED <<timerVars, engineVars, simplePoolVars, slotVars,
                   deferVars, onceVars>>

\* ~Handle: cancel(), that is _task->cancel().  Through an empty _task
\* this is a call on a null pointer, which faults when DelayedTask::cancel
\* locks the mutex of _state; an exception that cancel() throws leaves a
\* destructor: std::terminate
HandleDestroy(h) ==
    /\ ~HandleProcessEnded
    /\ hnd[h].st = "alive"
    /\ IF hnd[h].task = NoTaskPtr
       THEN /\ hOut' = [hOut EXCEPT ![h] = "crashed"]
            /\ hnd' = [hnd EXCEPT ![h].st = "destroyed"]
            /\ UNCHANGED hPhase
       ELSE LET t == hnd[h].task
                p == hPhase[t]
                r == State_cancel(p, "u1")
                c == CallResult(p, r)
            IN  IF r.tag = "wait"
                THEN /\ hnd' = [hnd EXCEPT ![h].st = "waiting",
                                           ![h].pid = p.id]
                     /\ UNCHANGED <<hPhase, hOut>>
                ELSE /\ hPhase' = [hPhase EXCEPT ![t] = c.phase]
                     /\ hOut' = [hOut EXCEPT ![h] =
                            IF c.out = "threw" THEN "terminated"
                            ELSE "returned"]
                     /\ hnd' = [hnd EXCEPT ![h].st = "destroyed"]
    /\ UNCHANGED <<timerVars, engineVars, simplePoolVars, slotVars,
                   deferVars, onceVars>>

\* the wait of StateRunning::cancel inside ~Handle ends with the phase
\* changed: BaseSwitcher returns false and the destructor completes
HandleResume(h) ==
    /\ ~HandleProcessEnded
    /\ hnd[h].st = "waiting"
    /\ StateChanged(hPhase[hnd[h].task], hnd[h].pid)
    /\ hnd' = [hnd EXCEPT ![h].st = "destroyed"]
    /\ hOut' = [hOut EXCEPT ![h] = "returned"]
    /\ UNCHANGED hPhase
    /\ UNCHANGED <<timerVars, engineVars, simplePoolVars, slotVars,
                   deferVars, onceVars>>

HandleNext ==
    \/ \E h \in Handles, t \in Tasks : HandleMake(h, t)
    \/ \E t \in Tasks : HandleTaskRun(t)
    \/ \E t \in Tasks, throws \in BOOLEAN : HandleTaskEnd(t, throws)
    \/ \E h, g \in Handles : HandleMove(h, g)
    \/ \E h \in Handles : HandleDestroy(h)
    \/ \E h \in Handles : HandleResume(h)

SpecHandle == Init /\ [][HandleNext]_vars

\* ================================================================== claims
InRun(t) ==
    \E w \in Workers :
        /\ th[w].task = t
        /\ th[w].pc \in {"body", "done_call", "start", "relock", "exc_call",
                         "notify"}

\* C1: a cancel() that waits on a Running task returns, with false and the
\* phase Done, once the body has completed: when the body has returned, the
\* phase is Done and the executor has left run() (its notifyAll included),
\* no caller of cancel() is still waiting.
C1_CancelReturnsAfterBody ==
    \A x \in Threads :
        /\ (th[x].pc = "cancel_wait" /\ phase[th[x].task].kind = "Done")
              => InRun(th[x].task)
        /\ (last[x].op = "cancel" /\ last[x].kind = "Running"
                /\ x \notin Workers)
              => last[x].out = "false"

\* C2: restart() on a Waiting task completes and returns true, leaves the
\* task Waiting and moves its due time to the time of the call plus delay.
C2_RestartWaitingReturnsTrue ==
    \A x \in Threads :
        /\ (th[x].op = "restart" /\ th[x].kind = "Waiting")
              => th[x].pc # "hung"
        /\ (last[x].op = "restart" /\ last[x].kind = "Waiting")
              => last[x].out = "true"

\* C3: after a restart accepted while Running, done() calls Timer::start and
\* completes: on success the phase becomes Waiting with the task queued
\* again, on failure no phase is swapped; without a restart the phase
\* becomes Done.  In particular done() neither blocks for ever nor throws.
C3_DoneRestartsTask ==
    /\ \A w \in Workers :
        th[w].op = "done" => th[w].pc \notin {"hung", "exc_call"}
    /\ \A t \in Tasks :
        doneLog[t] = "done" => phase[t].kind \in {"Done", "Cancelled"}

\* C4 as stated: a call whose phase was replaced during a wait installs
\* nothing and returns the accepted value its method computed.
C4_StaleCallReturnsRaw ==
    \A x \in EThreads :
        glast[x].stale =>
            /\ glast[x].out = BoolOut(glast[x].req.result)
            /\ glast[x].after = glast[x].before

\* C4 amended: a call whose phase was replaced during a wait installs
\* nothing and returns false, whatever its method computed.
C4_StaleCallReturnsFalse ==
    \A x \in EThreads :
        glast[x].stale =>
            /\ glast[x].out = "false"
            /\ glast[x].after = glast[x].before

C4_Witness ==
    \E x \in EThreads :
        /\ glast[x].stale
        /\ glast[x].req.result
        /\ glast[x].req.newState # NoState
        /\ glast[x].out = "false"

\* C5: call() applies the Transition Request of the method it ran on the
\* current phase under the lock: accepted with a next phase installs it
\* and returns true, accepted without one returns true and keeps the phase,
\* rejected returns false and keeps the phase; a method that returns no
\* Request (foo) answers for the current phase.  (A call overtaken by a swap
\* during a wait is the case of C4.)
C5_CallAppliesRequest ==
    \A x \in EThreads :
        /\ (glast[x].m \in {"oops", "witness"} /\ ~glast[x].stale) =>
            /\ glast[x].out = BoolOut(glast[x].req.result)
            /\ glast[x].after =
                 IF glast[x].req.result /\ glast[x].req.newState # NoState
                 THEN glast[x].req.newState
                 ELSE glast[x].before
        /\ glast[x].m = "foo" =>
            /\ glast[x].out = BoolOut(glast[x].onKind = "BadChild")
            /\ glast[x].after = glast[x].before

C5_Witness ==
    \E x, y \in EThreads :
        /\ glast[x].m = "oops" /\ glast[x].onKind = "Child"
        /\ glast[x].out = "true" /\ glast[x].after.kind = "BadChild"
        /\ glast[y].m = "foo" /\ glast[y].onKind = "BadChild"
        /\ glast[y].out = "true"
        /\ glast[y].before = glast[x].after

\* C6: an exception raised by the body is never lost: once run() has handed
\* it to the phase machine the phase is Exception and holds it.
C6_BodyErrorNeverLost ==
    \A t \in Tasks :
        (raised[t] # NoExc /\ excOn[t] # "None") =>
            /\ phase[t].kind = "Exception"
            /\ phase[t].exc = raised[t]

\* C7: an exception handed over while the task is Running makes the phase
\* Exception with that value for good, and cancel(), restart() and
\* is_done() called on it rethrow that value.
C7_ExceptionPhaseAbsorbs ==
    /\ \A t \in Tasks :
        excOn[t] = "Running" =>
            /\ phase[t].kind = "Exception"
            /\ phase[t].exc = excVal[t]
            /\ raised[t] # NoExc => excVal[t] = raised[t]
    /\ \A x \in Threads :
        (last[x].kind = "Exception"
            /\ last[x].op \in {"cancel", "restart", "isDone"}) =>
            /\ last[x].out = "threw"
            /\ last[x].val = phase[last[x].task].exc

C7_Witness ==
    \E x \in Users :
        /\ last[x].kind = "Exception" /\ last[x].op = "restart"
        /\ last[x].out = "threw"
        /\ last[x].val = "E2"
        /\ raised[last[x].task] = "E2"
        /\ phase[last[x].task].kind = "Exception"

\* C8 as stated: every status query on a task that ended in Exception
\* rethrows the stored exception.
C8_AllQueriesRethrow ==
    \A x \in Threads :
        (last[x].kind = "Exception" /\ last[x].op \in Queries) =>
            last[x].out = "threw"

\* C8 amended: on a task that ended in Exception is_done rethrows the
\* stored exception; is_waiting, is_running and is_cancelled return false.
C8_OnlyIsDoneRethrows ==
    \A x \in Threads :
        (last[x].kind = "Exception" /\ last[x].op \in Queries) =>
            IF last[x].op = "isDone"
            THEN /\ last[x].out = "threw"
                 /\ last[x].val = phase[last[x].task].exc
            ELSE last[x].out = "false"

C8_Witness ==
    \E x \in Users :
        /\ last[x].kind = "Exception" /\ last[x].op = "isDone"
        /\ last[x].out = "threw"
        /\ last[x].val = raised[last[x].task]

\* C9: the body is entered at most once per entry into Waiting, and only by
\* the run() whose own call installed the Running phase.
C9_BodyAtMostOncePerWaiting ==
    /\ \A t \in Tasks : bodyRuns[t] <= waitingEntries[t]
    /\ \A w \in Workers :
        (th[w].pc = "body" /\ phase[th[w].task].kind = "Running") =>
            phase[th[w].task].executor = w

C9_Witness ==
    \E w \in Workers :
        /\ last[w].op = "run" /\ last[w].out = "false"
        /\ bodyRuns[last[w].task] = 1
        /\ th[w].pc = "idle"

\* C10: cancel() on a Waiting task is accepted at once, without waiting; a
\* task cancelled while Waiting never runs its body and stays Cancelled.
C10_CancelWaitingIsFinal ==
    /\ \A x \in Threads :
        /\ (last[x].op = "cancel" /\ last[x].kind = "Waiting") =>
              last[x].out = "true"
        /\ th[x].pc \in {"cancel_wait", "cancel_woken"} =>
              th[x].kind = "Running"
    /\ \A t \in Tasks :
        cancelledFrom[t] = "Waiting" =>
            /\ bodyRuns[t] = 0
            /\ phase[t].kind = "Cancelled"

C10_Witness ==
    \E w \in Workers, u \in Users :
        /\ last[u].op = "cancel" /\ last[u].kind = "Waiting"
        /\ last[w].op = "run" /\ last[w].task = last[u].task
        /\ last[w].kind = "Cancelled" /\ last[w].out = "false"

\* C11: cancel() returns true exactly when that call itself moved the phase
\* to Cancelled: it returns true on Waiting, on Done and on Running when the
\* executor calls it, false when the task is Cancelled already and on
\* Running when another thread calls it.
C11_CancelTrueIffMoved ==
    \A x \in Threads :
        (last[x].op = "cancel" /\ last[x].out \in {"true", "false"}) =>
            /\ (last[x].out = "true") <=> last[x].moved
            /\ last[x].kind \in {"Waiting", "Done"} => last[x].out = "true"
            /\ last[x].kind = "Cancelled" => last[x].out = "false"
            /\ last[x].kind = "Running" =>
                  ((last[x].out = "true") <=> last[x].byExecutor)

C11_Witness ==
    \E w \in Workers, u \in Users :
        /\ last[w].op = "cancel" /\ last[w].kind = "Running"
        /\ last[w].byExecutor /\ last[w].moved /\ last[w].out = "true"
        /\ last[u].op = "cancel" /\ last[u].task = last[w].task
        /\ last[u].kind = "Cancelled" /\ last[u].out = "false"

\* C12: cancel() called by the body (the executor) moves the task to
\* Cancelled without waiting, and the task stays Cancelled when the body
\* has returned: the done() that follows is rejected and installs nothing.
C12_InsideCancelIsFinal ==
    /\ \A w \in Workers :
        /\ th[w].pc \notin {"cancel_wait", "cancel_woken"}
        /\ (last[w].op = "cancel" /\ last[w].kind = "Running") =>
              (last[w].out = "true" /\ last[w].moved)
    /\ \A t \in Tasks :
        cancelledFrom[t] = "Running" =>
            /\ phase[t].kind = "Cancelled"
            /\ doneLog[t] \in {"none", "rejected"}

C12_Witness ==
    \E t \in Tasks :
        /\ cancelledFrom[t] = "Running"
        /\ doneLog[t] = "rejected"
        /\ phase[t].kind = "Cancelled"
        /\ \A w \in Workers : th[w].pc \in {"idle", "pool_wait"}

\* C13: the phases of a task are monotonic: a kind of phase that was
\* current and has been replaced by another is never current again.
C13_PhasesMonotonic ==
    \A t \in Tasks : phase[t].kind \notin seen[t]

C13_Witness ==
    \E t \in Tasks :
        /\ seen[t] = {"Waiting", "Running", "Done"}
        /\ phase[t].kind = "Cancelled"

\* C14: of a task that has not ended in Exception exactly one of
\* isWaiting, isRunning, isDone, isCancelled is true, and a handle gets
\* true from the one that names the phase and false from the others.
C14_ExactlyOnePredicate ==
    /\ \A t \in Tasks :
        (phase[t] # NoState /\ phase[t].kind # "Exception") =>
            /\ \A op \in Queries : Query(op, phase[t]).tag = "ret"
            /\ Cardinality({op \in Queries : Query(op, phase[t]).val}) = 1
    /\ \A x \in Threads :
        (last[x].op \in Queries /\ last[x].kind # "Exception") =>
            last[x].out =
                BoolOut(<<last[x].op, last[x].kind>> \in
                          {<<"isWaiting", "Waiting">>,
                           <<"isRunning", "Running">>,
                           <<"isDone", "Done">>,
                           <<"isCancelled", "Cancelled">>})

C14_Witness ==
    \E x \in Users :
        /\ last[x].op = "isCancelled" /\ last[x].kind = "Cancelled"
        /\ last[x].out = "true"
        /\ phase[last[x].task].kind = "Cancelled"

\* C15: a task that cannot be scheduled (the queue refuses it in
\* addDelayedTask because it is full or stopped, or the pool refuses the
\* closure of the popped task) is Cancelled once the cancel() that follows
\* the refusal is over, and its body is not entered after the refusal.
C15_UnschedulableIsCancelled ==
    \A t \in Tasks :
        refused[t] # NotRefused =>
            /\ bodyRuns[t] = refused[t]
            /\ ~(th[Dispatcher].task = t /\
                 th[Dispatcher].pc \in {"refused", "cancel_wait",
                                        "cancel_woken"}) =>
                  phase[t].kind = "Cancelled"

\* C16: when a task with an earlier due time is inserted while the
\* dispatcher is in its timed wait, the dispatcher is woken and then waits
\* for the nearer due time: a dispatcher that waits, with no wake-up
\* pending, waits no longer than to the due time of the earliest task.
C16_DispatcherWaitsForNearest ==
    (th[Dispatcher].pc = "timed" /\ ~th[Dispatcher].woken /\ queue # <<>>)
        => th[Dispatcher].deadline <= queue[1].due

\* C17: the dispatcher pops the tasks earliest due time first and, of
\* tasks with equal due times, the one inserted first: the queue is in the
\* order of due time and then of insertion, and nothing that is in the queue
\* while a popped task is handed to the pool comes before that task.
C17_EarliestDueFirst ==
    LET Before(a, b) ==
            \E i, j \in 1..Len(insOrder) :
                i < j /\ insOrder[i] = a /\ insOrder[j] = b
    IN  /\ \A i, j \in 1..Len(queue) :
            i < j =>
                \/ queue[i].due < queue[j].due
                \/ /\ queue[i].due = queue[j].due
                   /\ Before(queue[i].task, queue[j].task)
        /\ th[Dispatcher].pc = "submit" =>
            \A i \in 1..Len(queue) :
                LET t == th[Dispatcher].task
                    due == schedAt[t] + delay[t]
                IN  \/ due < queue[i].due
                    \/ /\ due = queue[i].due
                       /\ Before(t, queue[i].task)

C17_Witness ==
    /\ th[Dispatcher].pc = "submit"
    /\ Len(queue) = 1
    /\ queue[1].due = schedAt[th[Dispatcher].task] + delay[th[Dispatcher].task]
    /\ insOrder = <<th[Dispatcher].task, queue[1].task>>

\* C18: the dispatcher pops a task only when it is ready: the due time in
\* the queue is the time of the submission, or of the last restart the
\* queue took, plus the delay, and no closure is handed over and no body is
\* entered before that time.
C18_NoBodyBeforeDue ==
    \A t \in Tasks :
        /\ mapping[t] # NoDue => mapping[t] = schedAt[t] + delay[t]
        /\ (\/ th[Dispatcher].pc = "submit" /\ th[Dispatcher].task = t
            \/ \E i \in 1..Len(poolQueue) : poolQueue[i] = t
            \/ \E w \in Workers :
                  th[w].task = t /\ th[w].pc \in {"run_call", "body"})
              => (schedAt[t] # NoDue /\ schedAt[t] + delay[t] <= now)

C18_Witness ==
    \E w \in Workers :
        /\ th[w].pc = "body"
        /\ delay[th[w].task] = 1
        /\ schedAt[th[w].task] = 0
        /\ now = 1

\* C19: when the Timer is destroyed, every task that is in the queue is
\* Cancelled once cancelAll has passed it, without an error (no exception
\* leaves the destructor, cancelAll is not blocked for ever by a thread
\* that waits for the queue's lock), and from the moment _quit is set the
\* queue takes no task and no new due time.
C19_DestructionCancelsQueue ==
    /\ [](/\ th[Owner].pc # "terminated"
          /\ th[Owner].pc = "cancel_all" =>
                /\ \A i \in 1..Len(queue) :
                      i < th[Owner].idx =>
                          phase[queue[i].task].kind = "Cancelled"
                /\ th[Owner].idx <= Len(queue) =>
                      \A x \in Threads :
                          stateLock[queue[th[Owner].idx].task] = x =>
                              th[x].pc \notin {"reschedule", "start"})
    /\ [][quit => /\ \A t \in Tasks : mapping'[t] \in {mapping[t], NoDue}
                  /\ schedAt' = schedAt]_vars

\* C20: the reference of a DelayedTask to its Timer is used (Timer::start,
\* Timer::reschedule, reached through done() and restart()) only while
\* the Timer is alive.
C20_TimerUsedOnlyAlive == ~usedGone

\* C21: the timer queue never holds more than maxQueueSize tasks, whatever
\* addTask, rescheduleTask, cancel and the pops of the dispatcher do.
C21_QueueWithinMaxSize == Len(queue) <= maxQueueSize

C21_Witness ==
    /\ maxQueueSize = 1
    /\ Len(queue) = 1
    /\ \E t \in Tasks :
          /\ refused[t] # NotRefused
          /\ mapping[t] = NoDue
          /\ ~quit

\* C22: the multimap and the reverse index of the timer queue agree: a
\* task is in _mapping iff it has exactly one entry in _queue, and the due
\* time in _mapping is the key of that entry.
C22_MapsAgree ==
    \A t \in Tasks :
        LET entries == {i \in 1..Len(queue) : queue[i].task = t}
        IN  /\ mapping[t] = NoDue => entries = {}
            /\ mapping[t] # NoDue =>
                  /\ Cardinality(entries) = 1
                  /\ \A i \in entries : queue[i].due = mapping[t]

C22_Witness ==
    \E t \in Tasks :
        /\ mapping[t] # NoDue
        /\ schedAt[t] > 0
        /\ mapping[t] = schedAt[t] + delay[t]
        /\ \E x \in Threads : th[x].op = "restart" /\ th[x].task = t

\* C23: a task the pool accepted is called at most once, however the
\* workers' getTask calls interleave.
C23_TaskRunsAtMostOnce ==
    /\ \A j \in Jobs : started[j] <= 1
    /\ \A i, k \in 1..Len(dequeued) : i # k => dequeued[i] # dequeued[k]
    /\ \A i \in 1..Len(dequeued) :
          \E k \in 1..Len(accepted) : accepted[k] = dequeued[i]

C23_Witness ==
    /\ threadCount = 2
    /\ Len(dequeued) = 3
    /\ \A w \in PoolWorkers : wk[w].pc = "body"

\* C24: the workers take the tasks in the order of the addTask calls that
\* returned true: the tasks taken so far are the first accepted ones, in
\* the order of their acceptance.
C24_PoolIsFifo ==
    /\ Len(dequeued) <= Len(accepted)
    /\ dequeued = SubSeq(accepted, 1, Len(dequeued))

C24_Witness ==
    /\ Len(accepted) >= 2
    /\ Len(tq) >= 1
    /\ Len(dequeued) = 2
    /\ threadCount = 1

\* C25: once _quit of the pool is set, the tasks that are in the queue are
\* dropped: no worker gets a task from getTask, and calls it, after that.
C25_NoStartAfterStop == \A j \in Jobs : ~afterQuit[j]

\* C26: a task addTask accepted is started by some worker unless the pool
\* is stopped (or the process terminates on an exception without handler):
\* the notifyOne of addTask is not lost on a worker that waits.
C26_AcceptedIsStarted ==
    \A j \in Jobs :
        (\E k \in 1..Len(accepted) : accepted[k] = j)
            ~> (started[j] > 0 \/ tqQuit \/ poolPc = "terminated")

C26_Witness ==
    \E w \in PoolWorkers :
        /\ wk[w].pc = "body"
        /\ wk[w].via = "wake"
        /\ ~tqQuit
        /\ Len(dequeued) = 2

\* C27: the destruction of the pool terminates: once stop has set _quit
\* and notified all, every worker leaves its loop (a waiting one when it
\* wakes up, a running one when its task has returned) and the joins
\* complete; a worker ends only after _quit is set.
C27_PoolDestructionTerminates ==
    /\ [](\A w \in PoolWorkers : wk[w].pc = "exited" => tqQuit)
    /\ (poolPc = "joining") ~> (poolPc \in {"destroyed", "terminated"})

C27_Witness ==
    /\ poolPc = "destroyed"
    /\ threadCount = 2
    /\ \E j \in Jobs : finished[j] /\ afterQuit[j]
    /\ \E w \in PoolWorkers : wk[w].pc = "exited" /\ wk[w].via = "none"

\* C28: an exception of a task body goes to the handler exactly once when
\* the pool has one, and the worker serves the next tasks; without a
\* handler the process terminates.
C28_ExceptionToSinkOnce ==
    /\ \A j \in Jobs :
          /\ sunk[j] = IF threw[j] /\ hasHandler THEN 1 ELSE 0
          /\ (threw[j] /\ ~hasHandler) => poolPc = "terminated"
    /\ poolPc = "terminated" => (~hasHandler /\ \E j \in Jobs : threw[j])
    /\ \A w \in PoolWorkers :
          wk[w].forwarded =>
              /\ wk[w].pc \in {"idle", "wait", "body", "exited"}
              /\ wk[w].pc = "exited" => tqQuit

C28_Witness ==
    \E w \in PoolWorkers :
        /\ wk[w].forwarded
        /\ wk[w].pc = "body"
        /\ sunk[1] = 1
        /\ wk[w].job = 2
        /\ threadCount = 1

\* C29: addTask of the pool returns false iff _quit is set or the task is
\* empty; then the queue is as it was and nobody is notified; when it
\* returns true the task is the new tail of the queue.
C29_AddTaskResult ==
    /\ lastAdd.ok <=> ~(lastAdd.quitBefore \/ lastAdd.task = NoTask)
    /\ ~lastAdd.ok => (lastAdd.after = lastAdd.before /\ ~lastAdd.notified)
    /\ lastAdd.ok => lastAdd.after = Append(lastAdd.before, lastAdd.task)
    /\ \A i \in 1..Len(tq) : tq[i] # NoTask

C29_Witness ==
    /\ nextJob = 4
    /\ ~lastAdd.ok
    /\ lastAdd.quitBefore
    /\ lastAdd.task # NoTask
    /\ Len(lastAdd.before) = 1
    /\ Len(accepted) = 1

\* C30: with N workers at most N task bodies are in progress; a further
\* task stays in the queue, not started, while all N workers are busy, and
\* it is started once a worker has finished its task.
C30_AtMostNBodies ==
    LET inProgress == {j \in Jobs : started[j] > 0 /\ ~finished[j]}
        busy == \A w \in 1..threadCount : wk[w].pc = "body"
    IN  /\ [](poolPc # "terminated" =>
                /\ Cardinality(inProgress) <= threadCount
                /\ \A i \in 1..Len(tq) : started[tq[i]] = 0)
        /\ \A j \in Jobs :
              (busy /\ tq # <<>> /\ Head(tq) = j)
                  ~> (started[j] > 0 \/ tqQuit \/ poolPc = "terminated")

C30_Witness ==
    /\ threadCount = 2
    /\ dequeued = <<1, 2, 3>>
    /\ Cardinality({j \in Jobs : finished[j]}) = 1
    /\ \A w \in PoolWorkers : wk[w].pc = "body"
    /\ ~tqQuit

\* C34: no thread holds the lock of the timer queue and the lock of a
\* task's state at the same time: a thread that holds the lock of a state
\* does not go through Queue::rescheduleTask or Queue::addTask, which lock
\* the queue, and cancelAll, which holds the lock of the queue, does not
\* call cancel(), which locks the state.
C34_OneCellLockAtATime ==
    [][/\ \A x \in Threads :
            (/\ th[x].pc \in {"reschedule", "start"}
             /\ stateLock[th[x].task] = x)
                => th'[x].pc \notin {"relock"}
       /\ (th[Owner].pc = "cancel_all" /\ th[Owner].idx <= Len(queue))
            => th'[Owner] = th[Owner]]_vars

\* C35: a phase object is immutable: a step either leaves the current
\* phase object of a task as it is or replaces it by another object; no
\* field of an object changes while it stays the current one.
C35_PhaseObjectsImmutable ==
    [][\A t \in Tasks :
          phase'[t].id = phase[t].id => phase'[t] = phase[t]]_vars

\* C39: no thread locks the mutex of a task's state while it owns it:
\* restart() and done() never reach cancel() or isCancelled() of the task
\* from inside State::call.
C39_NoRelockOfOwnedMutex ==
    \A x \in Threads :
        ~(th[x].pc = "relock" /\ stateLock[th[x].task] = x)

\* C31: a wait issued inside a write-locked section of a notifiable cell
\* never fails, and when it returns the calling thread holds the mutex and
\* the slot of the object points at the lock of that thread, whatever
\* other threads locked, waited on or unlocked in between; so for the rest
\* of the section the slot stays that of the thread and a further wait
\* succeeds.
C31_WaitReturnsLockedAndInstalled ==
    \A x \in SThreads :
        /\ lastWait[x].write =>
              /\ lastWait[x].out \in {"none", "returned"}
              /\ lastWait[x].out = "returned" =>
                    /\ lastWait[x].mutexAfter = x
                    /\ lastWait[x].slotAfter = x
        /\ (sec[x].pc = "in" /\ sec[x].write) =>
              /\ cellMutex = x
              /\ cellSlot[sec[x].obj] = x

\* C31 happens: the second wait of one write section has returned, and
\* another thread locked the cell while the thread was waiting
C31_Witness ==
    \E x \in SThreads :
        /\ lastWait[x].out = "returned"
        /\ lastWait[x].write
        /\ lastWait[x].others
        /\ lastWait[x].waits = 2

\* C32: as stated: the slot of the guarded value points to the lock of a
\* thread if and only if that thread holds the mutex as a writer, the slot
\* is empty whenever the mutex is free, and every exit of a section resets
\* the slot of a live object.
C32_SlotIffWriterHoldsLock ==
    /\ \A x \in SThreads :
          (cellSlot[cellObj] = x) <=> (cellMutex = x /\ sec[x].write)
    /\ cellMutex = NoThread => cellSlot[cellObj] = NoLockPtr
    /\ ~staleWrite

\* C33: a wait on an object whose slot is empty fails with logic_error: the
\* thread does not wait, the mutex keeps its owner and the slot stays
\* empty.
C33_WaitWithoutLockFails ==
    \A x \in SThreads :
        /\ (lastWait[x].out # "none"
              /\ lastWait[x].slotBefore = NoLockPtr) =>
              /\ lastWait[x].out = "logic_error"
              /\ lastWait[x].mutexAfter = lastWait[x].mutexBefore
              /\ lastWait[x].slotAfter = NoLockPtr
        /\ sec[x].pc = "waiting" => sec[x].captured # NoLockPtr
        /\ (sec[x].pc = "failed" /\ lastWait[x].out = "logic_error") =>
              /\ cellMutex = x
              /\ cellSlot[sec[x].obj] = NoLockPtr

\* C33 happens: a wait in a section under const access, with the mutex
\* held and the slot empty, has failed with logic_error
C33_Witness ==
    \E x \in SThreads :
        /\ sec[x].pc = "failed"
        /\ ~sec[x].write
        /\ lastWait[x].out = "logic_error"
        /\ lastWait[x].mutexBefore = x

\* C36: as stated: every callback given to a Defer is called at most once,
\* and a callback that no live holder still has pending, and whose holder
\* pass() was never called on, has been called exactly once.
C36_CallbackRunsExactlyOnce ==
    \A c \in 1..MaxCallbacks :
        /\ runs[c] <= 1
        /\ (/\ c < nextCb
            /\ ~userPassed[c]
            /\ ~\E h \in DHolders :
                  dfr[h].st = "alive" /\ dfr[h].cb = c /\ ~dfr[h].called)
              => runs[c] = 1

\* C37: at most one initialization attempt returns true, at most one
\* initializer runs at a time and none runs once an object has been
\* created, and get() returns the object only after an initialization has
\* completed.
C37_OnceInitializedAtMostOnce ==
    /\ initTrue <= 1
    /\ completed <= 1
    /\ ~howRuns.over
    /\ Cardinality({x \in OThreads :
                      oth[x].pc \in {"how", "how_done", "how_threw"}}) <= 1
    /\ (\E x \in OThreads : oth[x].pc \in {"how", "how_done", "how_threw"})
          => completed = 0
    /\ \A x \in OThreads :
          lastGet[x].ptr = "object" => lastGet[x].completed >= 1

\* C37 happens: an initializer threw, an attempt returned true, another
\* returned false, and a get() returned the object
C37_Witness ==
    /\ threwCount >= 1
    /\ initTrue = 1
    /\ \E x \in OThreads : lastInit[x].out = "false"
    /\ \E x \in OThreads : lastGet[x].ptr = "object"

\* C38: once disable() has returned, every initialization attempt returns
\* false, nothing is stored in the Once, and every get() returns what
\* disable() returned.
C38_DisableFreezesOnce ==
    /\ [](\A x \in OThreads :
            /\ lastInit[x].afterDisable => lastInit[x].out = "false"
            /\ lastGet[x].afterDisable =>
                  lastGet[x].ptr = lastGet[x].disRet)
    /\ [][disDone => /\ oFlags' = oFlags
                    /\ oObject' = oObject
                    /\ initTrue' = initTrue
                    /\ howRuns' = howRuns]_vars

\* C38 happens: disable() met an initialization in progress and returned
\* the object; afterwards an attempt returned false and a get() returned
\* the object
C38_Witness ==
    /\ disDone
    /\ disRaced
    /\ disRet = "object"
    /\ \E x \in OThreads : lastInit[x].afterDisable
    /\ \E x \in OThreads : lastGet[x].afterDisable

\* C40: as stated: the destructor of a Handle completes in every
\* situation: it does not end the process by an exception that leaves it,
\* and it does not call through an empty _task.
C40_HandleDestructionSafe ==
    \A h \in Handles : hOut[h] \notin {"terminated", "crashed"}

====
